---- MODULE Spec2Model ----
(***************************************************************************)
(* Ren'Py translation scripts: the scanner (RenpyFileParserService:        *)
(* extractLines, findLinesToFill, extractCommand) and the rewriter         *)
(* (TranslationProcessorService: createFilledLines, findFilledLineIndex,   *)
(* replaceLines); then the services around them: the batches of           *)
(* DeepLTranslationService.translateMultiple, the usage polling of         *)
(* FileTranslationComponent, and the folder translation run.               *)
(*                                                                         *)
(* A script is the sequence of lines fileContent.split('\n') yields; a     *)
(* line is a string, read character by character as the code reads it.    *)
(* Line indices are 0-based as in the code: At(ls, k) is lines[k].         *)
(***************************************************************************)
EXTENDS Integers, Sequences, FiniteSets, TLC

(***************************************************************************)
(* String primitives of the JavaScript runtime, on character sequences.    *)
(***************************************************************************)
Quote == "\""

CharAt(s, k) == SubSeq(s, k, k)

IsSpace(c) == c \in {" ", "\t"}

RECURSIVE trimStart(_)
trimStart(s) ==
    IF Len(s) > 0 /\ IsSpace(CharAt(s, 1))
    THEN trimStart(SubSeq(s, 2, Len(s)))
    ELSE s

RECURSIVE trimEnd(_)
trimEnd(s) ==
    IF Len(s) > 0 /\ IsSpace(CharAt(s, Len(s)))
    THEN trimEnd(SubSeq(s, 1, Len(s) - 1))
    ELSE s

trim(s) == trimEnd(trimStart(s))

startsWith(s, p) == Len(s) >= Len(p) /\ SubSeq(s, 1, Len(p)) = p

endsWith(s, p) == Len(s) >= Len(p) /\ SubSeq(s, Len(s) - Len(p) + 1, Len(s)) = p

includes(s, p) == \E k \in 1..(Len(s) - Len(p) + 1) : SubSeq(s, k, k + Len(p) - 1) = p

\* 1-based position of the first occurrence of the character c, 0 when absent
RECURSIVE indexFrom(_, _, _)
indexFrom(s, c, k) ==
    IF k > Len(s) THEN 0
    ELSE IF CharAt(s, k) = c THEN k
    ELSE indexFrom(s, c, k + 1)

indexOf(s, c) == indexFrom(s, c, 1)

\* 1-based position of the last occurrence of the character c, 0 when absent
RECURSIVE lastIndexFrom(_, _, _)
lastIndexFrom(s, c, k) ==
    IF k < 1 THEN 0
    ELSE IF CharAt(s, k) = c THEN k
    ELSE lastIndexFrom(s, c, k - 1)

lastIndexOf(s, c) == lastIndexFrom(s, c, Len(s))

\* 1-based position of the first whitespace character, 0 when absent
RECURSIVE firstSpaceFrom(_, _)
firstSpaceFrom(s, k) ==
    IF k > Len(s) THEN 0
    ELSE IF IsSpace(CharAt(s, k)) THEN k
    ELSE firstSpaceFrom(s, k + 1)

\* lines[k] with the code's 0-based index; the callers guard k < lines.length
At(ls, k) == ls[k + 1]

InRange(ls, k) == k >= 0 /\ k < Len(ls)

\* lines[k]?.trim().startsWith(p): undefined (falsy) beyond the end
trimmedStartsWith(ls, k, p) == InRange(ls, k) /\ startsWith(trim(At(ls, k)), p)

(***************************************************************************)
(* RenpyFileParserService.extractCommand                                   *)
(***************************************************************************)
\* line.trim().replace(/^#\s*/, '')
cleanedLine(line) ==
    LET t == trim(line)
    IN  IF startsWith(t, "#") THEN trimStart(SubSeq(t, 2, Len(t))) ELSE t

\* extractCommand without the fallback on the first word of a line that has
\* no quoted text
extractCommandQuotedOnly(line) ==
    LET c == cleanedLine(line)
        q == indexOf(c, Quote)
    IN  IF q >= 2 THEN trim(SubSeq(c, 1, q - 1)) ELSE ""

extractCommand(line) ==
    LET c == cleanedLine(line)
        q == indexOf(c, Quote)
        w == firstSpaceFrom(c, 1)
    IN  IF q >= 2
        THEN trim(SubSeq(c, 1, q - 1))      \* /^([^"]+)\s*"/ : match[1].trim()
        ELSE IF w = 0 THEN c                 \* cleanedLine.split(/\s+/)[0]
        ELSE SubSeq(c, 1, w - 1)


(***************************************************************************)
(* Scanner: text extraction (extractLines and its block handlers).         *)
(* A handler returns the index it hands back to the main loop and what it  *)
(* pushed; an emission carries, next to the pushed string, the index of    *)
(* the source line it was read from and of the slot line it belongs to.    *)
(***************************************************************************)
\* line.startsWith('# game/') && lines[i + 1]?.trim().startsWith('translate french')
isDialogueHeader(ls, k) ==
    /\ startsWith(trim(At(ls, k)), "# game/")
    /\ trimmedStartsWith(ls, k + 1, "translate french")

\* line.startsWith('translate french strings:'), the else-branch of the above
isStringsHeader(ls, k) ==
    /\ ~isDialogueHeader(ls, k)
    /\ startsWith(trim(At(ls, k)), "translate french strings:")

\* RegExp(/"(.*)"/).exec(line)?.[1] ?? '' : greedy, first quote to last quote
quotedText(line) ==
    LET a == indexOf(line, Quote)
        b == lastIndexOf(line, Quote)
    IN  IF a > 0 /\ b > a THEN SubSeq(line, a + 1, b - 1) ELSE ""

Emission(text, src, slot) == [text |-> text, src |-> src, slot |-> slot]

extractAndAddTextToTranslate(ls, src, slot) ==
    LET textToTranslate == quotedText(At(ls, src))
    IN  IF textToTranslate # "" THEN <<Emission(textToTranslate, src, slot)>> ELSE <<>>

\* processTwoCommentedLinesCase reading the text of the first comment line
processTwoCommentedLinesCaseFirstComment(ls, k) ==
    IF k + 5 < Len(ls)
    THEN IF ~includes(trim(At(ls, k + 5)), Quote)
         THEN [i    |-> k + 7,
               push |-> IF k + 6 < Len(ls) /\ includes(trim(At(ls, k + 6)), "\"\"")
                        THEN extractAndAddTextToTranslate(ls, k + 3, k + 6)
                        ELSE <<>>]
         ELSE [i    |-> k + 6,
               push |-> IF includes(trim(At(ls, k + 5)), "\"\"")
                        THEN extractAndAddTextToTranslate(ls, k + 3, k + 5)
                        ELSE <<>>]
    ELSE [i |-> k + 6, push |-> <<>>]

processTwoCommentedLinesCase(ls, k) ==
    IF k + 5 < Len(ls)
    THEN IF ~includes(trim(At(ls, k + 5)), Quote)
         THEN [i    |-> k + 7,
               push |-> IF k + 6 < Len(ls) /\ includes(trim(At(ls, k + 6)), "\"\"")
                        THEN extractAndAddTextToTranslate(ls, k + 4, k + 6)
                        ELSE <<>>]
         ELSE [i    |-> k + 6,
               push |-> IF includes(trim(At(ls, k + 5)), "\"\"")
                        THEN extractAndAddTextToTranslate(ls, k + 4, k + 5)
                        ELSE <<>>]
    ELSE [i |-> k + 6, push |-> <<>>]

\* processSingleCommentedLineCase taking a missing slot line for an empty slot
processSingleCommentedLineCaseUnguarded(ls, k) ==
    [i    |-> k + 5,
     push |-> IF k + 4 < Len(ls)
              THEN IF includes(trim(At(ls, k + 4)), "\"\"")
                   THEN extractAndAddTextToTranslate(ls, k + 3, k + 4)
                   ELSE <<>>
              ELSE extractAndAddTextToTranslate(ls, k + 3, k + 4)]

processSingleCommentedLineCase(ls, k) ==
    [i    |-> k + 5,
     push |-> IF k + 4 < Len(ls) /\ includes(trim(At(ls, k + 4)), "\"\"")
              THEN extractAndAddTextToTranslate(ls, k + 3, k + 4)
              ELSE <<>>]

processDialogueBlock(ls, k) ==
    IF trimmedStartsWith(ls, k + 3, "#") /\ trimmedStartsWith(ls, k + 4, "#")
    THEN processTwoCommentedLinesCase(ls, k)
    ELSE IF trimmedStartsWith(ls, k + 3, "#")
    THEN processSingleCommentedLineCase(ls, k)
    ELSE [i |-> k + 5, push |-> <<>>]

\* the text /old\s+"([^"]+)"/ captures when it matches at position p, else ""
oldMatchAt(s, p) ==
    LET afterOld == SubSeq(s, p + 3, Len(s))
        rest     == trimStart(afterOld)
        close    == indexFrom(rest, Quote, 2)
    IN  IF /\ SubSeq(s, p, p + 2) = "old"
           /\ Len(rest) < Len(afterOld)
           /\ startsWith(rest, Quote)
           /\ close > 2
        THEN SubSeq(rest, 2, close - 1)
        ELSE ""

\* RegExp(/old\s+"([^"]+)"/).exec(s)?.[1] ?? '' : the leftmost match
RECURSIVE oldMatchFrom(_, _)
oldMatchFrom(s, p) ==
    IF p + 2 > Len(s) THEN ""
    ELSE IF oldMatchAt(s, p) # "" THEN oldMatchAt(s, p)
    ELSE oldMatchFrom(s, p + 1)

oldMatch(s) == oldMatchFrom(s, 1)

\* nextLine.startsWith('new "') && (nextLine === 'new ""' || nextLine.endsWith('""'))
isEmptyNewLine(nextLine) ==
    /\ startsWith(nextLine, "new \"")
    /\ (nextLine = "new \"\"" \/ endsWith(nextLine, "\"\""))

processOldNewPair(ls, k) ==
    IF k + 1 < Len(ls) /\ isEmptyNewLine(trim(At(ls, k + 1)))
    THEN LET textToTranslate == oldMatch(trim(At(ls, k)))
         IN  IF textToTranslate # "" THEN <<Emission(textToTranslate, k, k + 1)>> ELSE <<>>
    ELSE <<>>

\* the loop of a strings block left at a comment line as well
leavesStringsBlockAtComment(currentLine) ==
    \/ startsWith(currentLine, "translate") /\ ~includes(currentLine, "strings:")
    \/ startsWith(currentLine, "#")

\* currentLine.startsWith('translate') && !currentLine.includes('strings:')
leavesStringsBlock(currentLine) ==
    startsWith(currentLine, "translate") /\ ~includes(currentLine, "strings:")

\* one iteration of the while loop of processStringsBlock that does not break
processStringsBlockStep(ls, k) ==
    [i    |-> k + 1,
     push |-> IF startsWith(trim(At(ls, k)), "old \"") THEN processOldNewPair(ls, k) ELSE <<>>]

(***************************************************************************)
(* Scanner: fill descriptors (findLinesToFill and its block handlers).     *)
(***************************************************************************)
addCommandToLinesToFill(ls, src, slot) ==
    LET command == extractCommand(At(ls, src))
    IN  IF command # "" THEN <<Emission(command \o " \"\"", src, slot)>> ELSE <<>>

\* handleCommandWithoutQuotes moving beyond one line to fill only
handleCommandWithoutQuotesOneLine(ls, k) ==
    [i    |-> k + 6,
     push |-> IF k + 6 < Len(ls) /\ includes(trim(At(ls, k + 6)), "\"\"")
              THEN addCommandToLinesToFill(ls, k + 4, k + 6)
              ELSE <<>>]

handleCommandWithoutQuotes(ls, k) ==
    [i    |-> k + 7,
     push |-> IF k + 6 < Len(ls) /\ includes(trim(At(ls, k + 6)), "\"\"")
              THEN addCommandToLinesToFill(ls, k + 4, k + 6)
              ELSE <<>>]

handleStandardCase(ls, k, lineToCheck) ==
    [i    |-> k + 6,
     push |-> IF includes(lineToCheck, "\"\"")
              THEN addCommandToLinesToFill(ls, k + 4, k + 5)
              ELSE <<>>]

findLinesToFillInTwoCommentedLinesCase(ls, k) ==
    IF k + 5 < Len(ls)
    THEN IF ~includes(trim(At(ls, k + 5)), Quote)
         THEN handleCommandWithoutQuotes(ls, k)
         ELSE handleStandardCase(ls, k, trim(At(ls, k + 5)))
    ELSE [i |-> k + 6, push |-> <<>>]

findLinesToFillInSingleCommentedLineCase(ls, k) ==
    [i    |-> k + 5,
     push |-> IF k + 4 < Len(ls) /\ includes(trim(At(ls, k + 4)), "\"\"")
              THEN LET command == extractCommand(At(ls, k + 3))
                   IN  IF command # ""
                       THEN <<Emission(command \o " \"\"", k + 3, k + 4)>>
                       ELSE <<>>
              ELSE <<>>]

findLinesToFillInDialogueBlock(ls, k) ==
    IF trimmedStartsWith(ls, k + 3, "#") /\ trimmedStartsWith(ls, k + 4, "#")
    THEN findLinesToFillInTwoCommentedLinesCase(ls, k)
    ELSE IF trimmedStartsWith(ls, k + 3, "#")
    THEN findLinesToFillInSingleCommentedLineCase(ls, k)
    ELSE [i |-> k + 5, push |-> <<>>]

\* processOldNewPairForFill handing back the index of the "old" line
processOldNewPairForFillSameIndex(ls, k) ==
    [i    |-> k,
     push |-> IF k + 1 < Len(ls) /\ isEmptyNewLine(trim(At(ls, k + 1)))
              THEN <<Emission("new \"\"", k, k + 1)>>
              ELSE <<>>]

\* returns the index of the line after the "old" line, consumed or not
processOldNewPairForFill(ls, k) ==
    [i    |-> k + 1,
     push |-> IF k + 1 < Len(ls) /\ isEmptyNewLine(trim(At(ls, k + 1)))
              THEN <<Emission("new \"\"", k, k + 1)>>
              ELSE <<>>]

\* one iteration of the while loop of findLinesToFillInStringsBlock that does not break
findLinesToFillInStringsBlockStep(ls, k) ==
    IF startsWith(trim(At(ls, k)), "old \"")
    THEN processOldNewPairForFill(ls, k)
    ELSE [i |-> k + 1, push |-> <<>>]

(***************************************************************************)
(* Rewriter (TranslationProcessorService).  availableFilledLines holds     *)
(* <<line>> for a filled line still available and Null for a used one.     *)
(* A handler returns the index handed back to the main loop, the lines it  *)
(* pushed on outputLines, the list of available filled lines it leaves,    *)
(* and one record per call of findFilledLineIndex it made.                 *)
(***************************************************************************)
Null == <<>>

\* /^([^"]+)/.exec(lineToFill): the longest prefix without a double quote,
\* trimmed; '' when there is none (an empty line, or a quote in front)
commandOfLineToFill(lineToFill) ==
    LET q == indexOf(lineToFill, Quote)
    IN  IF q = 1 \/ Len(lineToFill) = 0 THEN ""
        ELSE trim(IF q = 0 THEN lineToFill ELSE SubSeq(lineToFill, 1, q - 1))

\* `${command} "${translatedText}"`
filledLineOf(lineToFill, translatedText) ==
    commandOfLineToFill(lineToFill) \o " \"" \o translatedText \o "\""

\* createFilledLines giving a line to every descriptor, the missing
\* translations taken as empty
createFilledLinesPadded(toFill, translated) ==
    [k \in 1..Len(toFill) |->
        filledLineOf(toFill[k], IF k <= Len(translated) THEN translated[k] ELSE "")]

\* Math.min(linesToFill.length, translatedLines.length)
minLength(toFill, translated) ==
    IF Len(toFill) < Len(translated) THEN Len(toFill) ELSE Len(translated)

createFilledLines(toFill, translated) ==
    [k \in 1..minLength(toFill, translated) |-> filledLineOf(toFill[k], translated[k])]

\* filledLine.split('"')[0].trim()
filledLineCommand(filledLine) ==
    LET q == indexOf(filledLine, Quote)
    IN  trim(IF q = 0 THEN filledLine ELSE SubSeq(filledLine, 1, q - 1))

\* the first loop of findFilledLineIndex: 0-based index of the first entry
\* from k on that is not null and has exactly this command, -1 when none
RECURSIVE findExactFrom(_, _, _)
findExactFrom(filled, command, k) ==
    IF k >= Len(filled) THEN -1
    ELSE IF At(filled, k) # Null /\ filledLineCommand(At(filled, k)[1]) = command THEN k
    ELSE findExactFrom(filled, command, k + 1)

\* the second loop of findFilledLineIndex: the first entry that is not null
RECURSIVE findAvailableFrom(_, _)
findAvailableFrom(filled, k) ==
    IF k >= Len(filled) THEN -1
    ELSE IF At(filled, k) # Null THEN k
    ELSE findAvailableFrom(filled, k + 1)

\* findFilledLineIndex without its first loop for the dialogue commands
findFilledLineIndexFirstAvailable(filled, command, startIndex) ==
    IF command = "new" THEN findExactFrom(filled, command, startIndex)
    ELSE findAvailableFrom(filled, 0)

\* findFilledLineIndex without its second loop
findFilledLineIndexExactOnly(filled, command, startIndex) ==
    findExactFrom(filled, command, startIndex)

\* findFilledLineIndex without the early return for the command new
findFilledLineIndexAnyCommand(filled, command, startIndex) ==
    LET exact == findExactFrom(filled, command, startIndex)
    IN  IF exact # -1 THEN exact ELSE findAvailableFrom(filled, 0)

findFilledLineIndex(filled, command, startIndex) ==
    LET exact == findExactFrom(filled, command, startIndex)
    IN  IF exact # -1 THEN exact
        ELSE IF command = "new" THEN -1
        ELSE findAvailableFrom(filled, 0)

\* a call of findFilledLineIndex: the slot line, the command looked for, the
\* list before and after, the index returned, and whether a strings block made it
Attempt(lineIndex, command, before, matchingIndex, after, strings) ==
    [line |-> lineIndex, command |-> command, before |-> before,
     index |-> matchingIndex, after |-> after, strings |-> strings]

\* useFilledLine pushing the filled line without the four spaces
useFilledLineUnindented(ls, lineIndex, avail, commandToFill, strings) ==
    LET matchingIndex == findFilledLineIndex(avail, commandToFill, 0)
        used == [avail EXCEPT ![matchingIndex + 1] = Null]
    IN  IF matchingIndex = -1
        THEN [out   |-> <<At(ls, lineIndex)>>,
              avail |-> avail,
              tries |-> <<Attempt(lineIndex, commandToFill, avail, matchingIndex, avail, strings)>>]
        ELSE [out   |-> <<At(avail, matchingIndex)[1]>>,
              avail |-> used,
              tries |-> <<Attempt(lineIndex, commandToFill, avail, matchingIndex, used, strings)>>]

\* useFilledLine that does not mark the filled line it used
useFilledLineUnmarked(ls, lineIndex, avail, commandToFill, strings) ==
    LET matchingIndex == findFilledLineIndex(avail, commandToFill, 0)
    IN  [out   |-> IF matchingIndex = -1
                   THEN <<At(ls, lineIndex)>>
                   ELSE <<"    " \o At(avail, matchingIndex)[1]>>,
         avail |-> avail,
         tries |-> <<Attempt(lineIndex, commandToFill, avail, matchingIndex, avail, strings)>>]

\* the body shared by fillLineWithTranslation and fillNewLineWithTranslation
\* once the command to fill is known
useFilledLine(ls, lineIndex, avail, commandToFill, strings) ==
    LET matchingIndex == findFilledLineIndex(avail, commandToFill, 0)
        used == [avail EXCEPT ![matchingIndex + 1] = Null]
    IN  IF matchingIndex = -1
        THEN [out   |-> <<At(ls, lineIndex)>>,
              avail |-> avail,
              tries |-> <<Attempt(lineIndex, commandToFill, avail, matchingIndex, avail, strings)>>]
        ELSE [out   |-> <<"    " \o At(avail, matchingIndex)[1]>>,
              avail |-> used,
              tries |-> <<Attempt(lineIndex, commandToFill, avail, matchingIndex, used, strings)>>]

fillLineWithTranslation(ls, lineIndex, avail) ==
    useFilledLine(ls, lineIndex, avail, extractCommand(At(ls, lineIndex)), FALSE)

fillNewLineWithTranslation(ls, lineIndex, avail) ==
    useFilledLine(ls, lineIndex, avail, "new", TRUE)

\* a line copied without looking for a filled line
Kept(out, avail) == [out |-> out, avail |-> avail, tries |-> <<>>]

\* what a handler returns: the pushes `before`, then those of `r`
Handled(k, before, r) ==
    [i |-> k, out |-> before \o r.out, avail |-> r.avail, tries |-> r.tries]

\* lines[k] || ''
orEmpty(ls, k) == IF InRange(ls, k) THEN At(ls, k) ELSE ""

\* if (lines[k]) outputLines.push(lines[k])
pushIfTruthy(ls, k) == IF InRange(ls, k) /\ At(ls, k) # "" THEN <<At(ls, k)>> ELSE <<>>

handleCommandWithoutQuotesForReplace(ls, k, avail) ==
    Handled(k + 7, <<At(ls, k + 5)>>,
            IF k + 6 < Len(ls)
            THEN IF includes(trim(At(ls, k + 6)), "\"\"")
                 THEN fillLineWithTranslation(ls, k + 6, avail)
                 ELSE Kept(<<At(ls, k + 6)>>, avail)
            ELSE Kept(<<"">>, avail))

handleStandardCaseForReplace(ls, k, avail, lineToCheck, lineIndex) ==
    Handled(k + 6, <<>>,
            IF includes(lineToCheck, "\"\"")
            THEN fillLineWithTranslation(ls, lineIndex, avail)
            ELSE Kept(<<At(ls, lineIndex)>>, avail))

processTwoCommentedLinesForReplace(ls, k, avail) ==
    LET comments == <<At(ls, k + 3), At(ls, k + 4)>>
    IN  IF k + 5 < Len(ls)
        THEN LET r == IF includes(trim(At(ls, k + 5)), Quote)
                      THEN handleStandardCaseForReplace(ls, k, avail, trim(At(ls, k + 5)), k + 5)
                      ELSE handleCommandWithoutQuotesForReplace(ls, k, avail)
             IN  Handled(r.i, comments, r)
        ELSE Handled(k + 6, comments, Kept(<<"">>, avail))

processSingleCommentedLineForReplace(ls, k, avail) ==
    Handled(k + 5, <<At(ls, k + 3)>>,
            IF k + 4 < Len(ls)
            THEN IF includes(trim(At(ls, k + 4)), "\"\"")
                 THEN fillLineWithTranslation(ls, k + 4, avail)
                 ELSE Kept(<<At(ls, k + 4)>>, avail)
            ELSE Kept(<<"">>, avail))

processDialogueBlockForReplace(ls, k, avail) ==
    LET header == <<At(ls, k), At(ls, k + 1), orEmpty(ls, k + 2)>>
        r == IF trimmedStartsWith(ls, k + 3, "#") /\ trimmedStartsWith(ls, k + 4, "#")
             THEN processTwoCommentedLinesForReplace(ls, k, avail)
             ELSE IF trimmedStartsWith(ls, k + 3, "#")
             THEN processSingleCommentedLineForReplace(ls, k, avail)
             ELSE Handled(k + 5, <<>>,
                          Kept(pushIfTruthy(ls, k + 3) \o pushIfTruthy(ls, k + 4), avail))
    IN  Handled(r.i, header, r)

\* the condition of the while loop of processStringsBlockForReplace
inStringsPairs(ls, k) ==
    k < Len(ls) /\ (startsWith(trim(At(ls, k)), "old \"") \/ trim(At(ls, k)) = "")

\* one iteration of the while loop of processStringsBlockForReplace
processStringsBlockForReplaceStep(ls, k, avail) ==
    Handled(k + 2, <<At(ls, k)>>,
            IF k + 1 < Len(ls)
            THEN IF trim(At(ls, k + 1)) # "" /\ isEmptyNewLine(trim(At(ls, k + 1)))
                 THEN fillNewLineWithTranslation(ls, k + 1, avail)
                 ELSE Kept(<<orEmpty(ls, k + 1)>>, avail)
            ELSE Kept(<<>>, avail))

(***************************************************************************)
(* The scripts the functions are run on: each of the blocks below alone,   *)
(* and every two of them one after the other, up to MaxLines lines.        *)
(***************************************************************************)
MaxLines == 12

\* the longest filledLines list replaceLines is given
MaxFilled == 2

Header == <<"# game/a.rpy:1", "translate french a_1:", "">>

DialogueBlocks ==
    { Header \o <<"    # e \"Hi\"", "    e \"\"">>,
      Header \o <<"    # n \"Yo\"", "n \"\"">>,
      Header \o <<"    # e \"Hi\"", "    e \"Salut\"">>,
      Header \o <<"    # e \"\"", "    e \"\"">>,
      Header \o <<"    #", "    \"\"">>,
      Header \o <<"    # \"Hi\"", "    \"\"">>,
      Header \o <<"    # nvl clear", "    # e \"Hi\"", "    nvl clear", "    e \"\"">>,
      Header \o <<"    # n \"Yo\"", "    # e \"Hi\"", "    e \"\"">>,
      Header \o <<"    # n \"Yo\"", "    # e \"Hi\"", "    e \"a\\\"\"">>,
      Header \o <<"    # e \"Hi\"">>,
      Header \o <<"    # n \"Yo\"", "    # e \"Hi\"">>,
      Header \o <<"    # nvl clear", "    # e \"Hi\"", "    nvl clear">>,
      Header \o <<"", "    e \"\"">>,
      SubSeq(Header, 1, 2) }

StringsBlocks ==
    { <<"translate french strings:", "    old \"Yes\"", "    new \"\"">>,
      <<"translate french strings:", "", "    old \"Yes\"", "    new \"\"">>,
      <<"translate french strings:", "", "    # game/a.rpy:2", "    old \"Yes\"", "    new \"\"">>,
      <<"translate french strings:", "    old \"Yes\"", "    new \"Oui\"">>,
      <<"translate french strings:", "    old \"Yes\"", "    new \"a\\\"\"">>,
      <<"translate french strings:", "    old \"Yes\"", "    new \"\"",
        "translate french a_1:", "    old \"No\"", "    new \"\"">>,
      <<"translate french strings:", "    old \"Yes\"", "    new \"\"", "    old \"No\"", "    new \"\"">>,
      <<"translate french strings:", "    old \"\"", "    new \"\"">> }

OtherLines == { <<"">>, <<"    old \"No\"", "    new \"\"">> }

Blocks == DialogueBlocks \cup StringsBlocks \cup OtherLines

\* fileContent.split('\n') has at least one element: the empty text is <<"">>
Scripts ==
    { s \in Blocks \cup { a \o b : a \in Blocks, b \in Blocks } : Len(s) <= MaxLines }

FilledCatalog == { "e \"T\"", "n \"U\"", "new \"V\"", " \"N\"" }

RECURSIVE SeqsUpTo(_, _)
SeqsUpTo(S, n) ==
    IF n = 0 THEN {<<>>}
    ELSE SeqsUpTo(S, n - 1) \cup { Append(q, x) : q \in SeqsUpTo(S, n - 1), x \in S }

FilledInputs == SeqsUpTo(FilledCatalog, MaxFilled)

\* the longest translatedLines list createFilledLines is given
MaxTranslated == 2

TranslationCatalog == { "A", "B" }

TranslatedInputs == SeqsUpTo(TranslationCatalog, MaxTranslated)

(***************************************************************************)
(* State: the three functions run one after the other on the same script,  *)
(* each main-loop iteration and each strings-loop iteration one step.      *)
(***************************************************************************)
VARIABLES
    lines,                  \* fileContent.split('\n')
    pc,                     \* "extractLines", "findLinesToFill", "call", "created",
                            \* "replaceLines", "done"
    i,                      \* the line index of the running function
    inStrings,              \* the running function is inside its strings-block loop
    linesToTranslate,       \* the array extractLines builds
    linesToFill,            \* the array findLinesToFill builds
    translatedLines,        \* the translations createFilledLines is given
    created,                \* filledLines is what createFilledLines returned
    filledLines,            \* the argument of replaceLines
    argumentNulls,          \* the indices of the caller's array that now hold null
    availableFilledLines,   \* replaceLines' copy of filledLines, used entries Null
    outputLines,            \* the array replaceLines builds, joined on return
    textSlots,              \* for each extracted text: its source and slot line
    fillSlots,              \* for each fill descriptor: its source and slot line
    attempts                \* the calls of findFilledLineIndex, in order

\* translateMultiple and the subscription translateFile makes to it
VARIABLES
    texts,                  \* the argument of translateMultiple
    batches,                \* the batches the texts were split into
    subscription,           \* "none", "empty", "single" (one batch) or "multiple"
    inFlight,               \* the batches whose request has not been answered
    allTranslations,        \* new Array(texts.length), filled by the next handlers
    completedBatches,
    startIndex,
    notifications,          \* what the subscriber of translateMultiple received
    isStopped,              \* the subscriber received error or complete
    succeeded,              \* the batches answered with translations
    failed                  \* the batches answered with an error

\* the usage polling of FileTranslationComponent
VARIABLES
    usagePc,                \* "idle", "countdown", "fetching" (a request is out) or
                            \* "scheduled" (setTimeout(() => this.fetchApiUsage(), 2000))
    characterCount,         \* the signal characterCount
    previousCharacterCount,
    retryCount,             \* the signal retryCount
    isUpdatingUsage,        \* the signal isUpdatingUsage
    usageRequest,           \* the arguments of the request that is out
    refetches               \* the fetches the retry timer made in this sequence

fileVars == <<lines, pc, i, inStrings, linesToTranslate, linesToFill, translatedLines,
              created, filledLines, argumentNulls, availableFilledLines, outputLines,
              textSlots, fillSlots, attempts>>

deeplVars == <<texts, batches, subscription, inFlight, allTranslations, completedBatches,
               startIndex, notifications, isStopped, succeeded, failed>>

\* a folder translation run
VARIABLES
    folderPc,               \* "idle", "start", "loop", "done" or "rejected"
    caller,                 \* "service" (translateFiles) or "component" (translateFolder)
    selectedApi,
    files,                  \* the files of the folder, in the order given
    candidates,             \* the sorted metas
    position,               \* the index in candidates of the meta the loop is at
    remaining,
    startRemaining,         \* remaining as computed from the usage fetched
    partialUsed,
    status,                 \* meta.status of each file (component)
    zip,                    \* the entries written with zip.file
    submitted               \* the calls made to the provider

folderVars == <<folderPc, caller, selectedApi, files, candidates, position, remaining,
                startRemaining, partialUsed, status, zip, submitted>>

usageVars == <<usagePc, characterCount, previousCharacterCount, retryCount, isUpdatingUsage,
               usageRequest, refetches>>

\* what the functions run on a script leave alone
serviceVars == <<deeplVars, usageVars, folderVars>>

\* what a folder translation run leaves alone
nonFolderVars == <<fileVars, deeplVars, usageVars>>

vars == <<fileVars, deeplVars, usageVars, folderVars>>

Texts(push) == [k \in DOMAIN push |-> push[k].text]

Slots(push) == [k \in DOMAIN push |-> [src |-> push[k].src, slot |-> push[k].slot]]

\* the attempts of one handler, with the position in outputLines of the line
\* each one pushed (the last push of the handler)
Placed(tries, pos) ==
    [k \in DOMAIN tries |->
        [line |-> tries[k].line, command |-> tries[k].command, before |-> tries[k].before,
         index |-> tries[k].index, after |-> tries[k].after, strings |-> tries[k].strings,
         out |-> pos]]

\* !fileContent
emptyContent(ls) == ls = <<"">>

\* the component as constructed: no usage fetched yet
NoUsageFetched ==
    /\ usagePc = "idle"
    /\ characterCount = 0
    /\ previousCharacterCount = 0
    /\ retryCount = 0
    /\ isUpdatingUsage = FALSE
    /\ usageRequest = [previousCharacterCount |-> 0, retryCount |-> 0]
    /\ refetches = 0

\* no folder translation has been started
NoFolderRun ==
    /\ folderPc = "idle"
    /\ caller = "service"
    /\ selectedApi = "deepl-free"
    /\ files = <<>>
    /\ candidates = <<>>
    /\ position = 1
    /\ remaining = 0
    /\ startRemaining = 0
    /\ partialUsed = FALSE
    /\ status = <<>>
    /\ zip = <<>>
    /\ submitted = <<>>

\* no call of translateMultiple has been made
NotSubscribed ==
    /\ batches = <<>>
    /\ subscription = "none"
    /\ inFlight = {}
    /\ allTranslations = <<>>
    /\ completedBatches = 0
    /\ startIndex = 0
    /\ notifications = <<>>
    /\ isStopped = FALSE
    /\ succeeded = {}
    /\ failed = {}

Init ==
    /\ lines \in Scripts
    /\ pc = "extractLines"
    /\ texts = <<>>
    /\ NotSubscribed
    /\ NoUsageFetched
    /\ NoFolderRun
    /\ i = 0
    /\ inStrings = FALSE
    /\ linesToTranslate = <<>>
    /\ linesToFill = <<>>
    /\ translatedLines = <<>>
    /\ created = FALSE
    /\ filledLines = <<>>
    /\ argumentNulls = {}
    /\ availableFilledLines = <<>>
    /\ outputLines = <<>>
    /\ textSlots = <<>>
    /\ fillSlots = <<>>
    /\ attempts = <<>>

scanVars == <<linesToTranslate, textSlots, linesToFill, fillSlots>>

replaceVars == <<translatedLines, created, filledLines, argumentNulls,
                 availableFilledLines, outputLines, attempts>>

\* what the rewriter leaves alone while it runs
callVars == <<translatedLines, created>>

\* the main loop of the function `f` is at a line of the script
AtLine(f) == pc = f /\ ~inStrings /\ ~emptyContent(lines) /\ i < Len(lines)

\* the function `f` leaves its main loop, or returns at once on an empty text
AtReturn(f) == pc = f /\ ~inStrings /\ (emptyContent(lines) \/ i >= Len(lines))

(***************************************************************************)
(* extractLines                                                            *)
(***************************************************************************)
ExtractDialogueBlock ==
    /\ AtLine("extractLines") /\ isDialogueHeader(lines, i)
    /\ LET r == processDialogueBlock(lines, i)
       IN  /\ i' = r.i
           /\ linesToTranslate' = linesToTranslate \o Texts(r.push)
           /\ textSlots' = textSlots \o Slots(r.push)
    /\ UNCHANGED <<serviceVars, lines, pc, inStrings, linesToFill, fillSlots, replaceVars>>

ExtractStringsBlockEnter ==
    /\ AtLine("extractLines") /\ isStringsHeader(lines, i)
    /\ i' = i + 1
    /\ inStrings' = TRUE
    /\ UNCHANGED <<serviceVars, lines, pc, scanVars, replaceVars>>

ExtractStringsBlockStep ==
    /\ pc = "extractLines" /\ inStrings
    /\ i < Len(lines) /\ ~leavesStringsBlock(trim(At(lines, i)))
    /\ LET r == processStringsBlockStep(lines, i)
       IN  /\ i' = r.i
           /\ linesToTranslate' = linesToTranslate \o Texts(r.push)
           /\ textSlots' = textSlots \o Slots(r.push)
    /\ UNCHANGED <<serviceVars, lines, pc, inStrings, linesToFill, fillSlots, replaceVars>>

ExtractStringsBlockExit ==
    /\ pc = "extractLines" /\ inStrings
    /\ IF i < Len(lines) THEN leavesStringsBlock(trim(At(lines, i))) ELSE TRUE
    /\ inStrings' = FALSE
    /\ UNCHANGED <<serviceVars, lines, pc, i, scanVars, replaceVars>>

ExtractSkipLine ==
    /\ AtLine("extractLines")
    /\ ~isDialogueHeader(lines, i) /\ ~isStringsHeader(lines, i)
    /\ i' = i + 1
    /\ UNCHANGED <<serviceVars, lines, pc, inStrings, scanVars, replaceVars>>

ExtractReturn ==
    /\ AtReturn("extractLines")
    /\ pc' = "findLinesToFill"
    /\ i' = 0
    /\ UNCHANGED <<serviceVars, lines, inStrings, scanVars, replaceVars>>

(***************************************************************************)
(* findLinesToFill                                                         *)
(***************************************************************************)
FillDialogueBlock ==
    /\ AtLine("findLinesToFill") /\ isDialogueHeader(lines, i)
    /\ LET r == findLinesToFillInDialogueBlock(lines, i)
       IN  /\ i' = r.i
           /\ linesToFill' = linesToFill \o Texts(r.push)
           /\ fillSlots' = fillSlots \o Slots(r.push)
    /\ UNCHANGED <<serviceVars, lines, pc, inStrings, linesToTranslate, textSlots, replaceVars>>

FillStringsBlockEnter ==
    /\ AtLine("findLinesToFill") /\ isStringsHeader(lines, i)
    /\ i' = i + 1
    /\ inStrings' = TRUE
    /\ UNCHANGED <<serviceVars, lines, pc, scanVars, replaceVars>>

FillStringsBlockStep ==
    /\ pc = "findLinesToFill" /\ inStrings
    /\ i < Len(lines) /\ ~leavesStringsBlock(trim(At(lines, i)))
    /\ LET r == findLinesToFillInStringsBlockStep(lines, i)
       IN  /\ i' = r.i
           /\ linesToFill' = linesToFill \o Texts(r.push)
           /\ fillSlots' = fillSlots \o Slots(r.push)
    /\ UNCHANGED <<serviceVars, lines, pc, inStrings, linesToTranslate, textSlots, replaceVars>>

FillStringsBlockExit ==
    /\ pc = "findLinesToFill" /\ inStrings
    /\ IF i < Len(lines) THEN leavesStringsBlock(trim(At(lines, i))) ELSE TRUE
    /\ inStrings' = FALSE
    /\ UNCHANGED <<serviceVars, lines, pc, i, scanVars, replaceVars>>

FillSkipLine ==
    /\ AtLine("findLinesToFill")
    /\ ~isDialogueHeader(lines, i) /\ ~isStringsHeader(lines, i)
    /\ i' = i + 1
    /\ UNCHANGED <<serviceVars, lines, pc, inStrings, scanVars, replaceVars>>

FillReturn ==
    /\ AtReturn("findLinesToFill")
    /\ pc' = "call"
    /\ i' = 0
    /\ UNCHANGED <<serviceVars, lines, inStrings, scanVars, replaceVars>>

(***************************************************************************)
(* replaceLines                                                            *)
(***************************************************************************)
\* const availableFilledLines = [...filledLines]: whether a mark written on
\* availableFilledLines is a write on the array the caller passed
sharesArgumentAliased == TRUE

sharesArgument == FALSE

\* [...filledLines], made once the text is known not to be empty
copyOfFilledLines(ls, f) ==
    IF emptyContent(ls) THEN <<>> ELSE [k \in DOMAIN f |-> <<f[k]>>]

\* filledLines[matchingIndex] = null, written on availableFilledLines: the
\* entries of the caller's array that hold null once the list is `avail`
argumentAfter(nulls, avail) ==
    IF sharesArgument THEN { k \in DOMAIN avail : avail[k] = Null } ELSE nulls

\* translateFile's next handler: createFilledLines(linesToFill, translatedLines)
CreateFilledLines ==
    /\ pc = "call"
    /\ \E t \in TranslatedInputs :
          /\ translatedLines' = t
          /\ filledLines' = createFilledLines(linesToFill, t)
    /\ created' = TRUE
    /\ pc' = "created"
    /\ UNCHANGED <<serviceVars, lines, i, inStrings, scanVars, argumentNulls, availableFilledLines,
                   outputLines, attempts>>

\* replaceLines called with the lines createFilledLines returned
ReplaceCreated ==
    /\ pc = "created"
    /\ availableFilledLines' = copyOfFilledLines(lines, filledLines)
    /\ pc' = "replaceLines"
    /\ UNCHANGED <<serviceVars, lines, i, inStrings, scanVars, callVars, filledLines, argumentNulls,
                   outputLines, attempts>>

\* replaceLines called with any list of filled lines
ReplaceCall ==
    /\ pc = "call"
    /\ \E f \in FilledInputs :
          /\ filledLines' = f
          /\ availableFilledLines' = copyOfFilledLines(lines, f)
    /\ pc' = "replaceLines"
    /\ UNCHANGED <<serviceVars, lines, i, inStrings, scanVars, callVars, argumentNulls, outputLines,
                   attempts>>

ReplaceDialogueBlock ==
    /\ AtLine("replaceLines") /\ isDialogueHeader(lines, i)
    /\ LET r == processDialogueBlockForReplace(lines, i, availableFilledLines)
       IN  /\ i' = r.i
           /\ outputLines' = outputLines \o r.out
           /\ availableFilledLines' = r.avail
           /\ argumentNulls' = argumentAfter(argumentNulls, r.avail)
           /\ attempts' = attempts \o Placed(r.tries, Len(outputLines) + Len(r.out))
    /\ UNCHANGED <<serviceVars, lines, pc, inStrings, scanVars, callVars, filledLines>>

ReplaceStringsBlockEnter ==
    /\ AtLine("replaceLines") /\ isStringsHeader(lines, i)
    /\ outputLines' = Append(outputLines, At(lines, i))
    /\ i' = i + 1
    /\ inStrings' = TRUE
    /\ UNCHANGED <<serviceVars, lines, pc, scanVars, callVars, filledLines, argumentNulls, availableFilledLines, attempts>>

ReplaceStringsBlockStep ==
    /\ pc = "replaceLines" /\ inStrings
    /\ inStringsPairs(lines, i)
    /\ LET r == processStringsBlockForReplaceStep(lines, i, availableFilledLines)
       IN  /\ i' = r.i
           /\ outputLines' = outputLines \o r.out
           /\ availableFilledLines' = r.avail
           /\ argumentNulls' = argumentAfter(argumentNulls, r.avail)
           /\ attempts' = attempts \o Placed(r.tries, Len(outputLines) + Len(r.out))
    /\ UNCHANGED <<serviceVars, lines, pc, inStrings, scanVars, callVars, filledLines>>

ReplaceStringsBlockExit ==
    /\ pc = "replaceLines" /\ inStrings
    /\ ~inStringsPairs(lines, i)
    /\ inStrings' = FALSE
    /\ UNCHANGED <<serviceVars, lines, pc, i, scanVars, replaceVars>>

ReplaceCopyLine ==
    /\ AtLine("replaceLines")
    /\ ~isDialogueHeader(lines, i) /\ ~isStringsHeader(lines, i)
    /\ outputLines' = Append(outputLines, At(lines, i))
    /\ i' = i + 1
    /\ UNCHANGED <<serviceVars, lines, pc, inStrings, scanVars, callVars, filledLines, argumentNulls, availableFilledLines,
                   attempts>>

\* return outputLines.join('\n'), or '' at once on an empty text
ReplaceReturn ==
    /\ AtReturn("replaceLines")
    /\ pc' = "done"
    /\ outputLines' = IF emptyContent(lines) THEN <<"">> ELSE outputLines
    /\ UNCHANGED <<serviceVars, lines, i, inStrings, scanVars, callVars, filledLines, argumentNulls, availableFilledLines,
                   attempts>>

Next ==
    \/ ExtractDialogueBlock
    \/ ExtractStringsBlockEnter
    \/ ExtractStringsBlockStep
    \/ ExtractStringsBlockExit
    \/ ExtractSkipLine
    \/ ExtractReturn
    \/ FillDialogueBlock
    \/ FillStringsBlockEnter
    \/ FillStringsBlockStep
    \/ FillStringsBlockExit
    \/ FillSkipLine
    \/ FillReturn
    \/ CreateFilledLines
    \/ ReplaceCreated
    \/ ReplaceCall
    \/ ReplaceDialogueBlock
    \/ ReplaceStringsBlockEnter
    \/ ReplaceStringsBlockStep
    \/ ReplaceStringsBlockExit
    \/ ReplaceCopyLine
    \/ ReplaceReturn

Spec == Init /\ [][Next]_vars

(***************************************************************************)
(* DeepLTranslationService.translateMultiple.  A text stands for a long    *)
(* string and is known by its name and by the length of its URI encoding;  *)
(* the service answers a batch with one translation per text, in the       *)
(* batch's order, or with an error.                                        *)
(***************************************************************************)
DEEPL_REQUEST_SIZE_LIMIT == 131072

DEEPL_HEADER_SIZE_LIMIT == 16384

\* baseParams.toString().length for a key of 39 characters and the target FR:
\* auth_key=<key>&target_lang=FR
baseParamsSize == 63

availableSize == DEEPL_REQUEST_SIZE_LIMIT - DEEPL_HEADER_SIZE_LIMIT - baseParamsSize

\* encodeURIComponent(text).length of the texts of the model
encodedLength(text) ==
    CASE text = "a" -> 50000
      [] text = "b" -> 60000

\* encodeURIComponent(`text=${text}`).length + 1, the = encoded as %3D
textParamSize(text) == 7 + encodedLength(text) + 1

\* the for loop that splits texts into batches, from the k-th text on
RECURSIVE batchesFrom(_, _, _, _, _)
batchesFrom(ts, k, done, currentBatch, currentBatchSize) ==
    IF k > Len(ts)
    THEN IF Len(currentBatch) > 0 THEN Append(done, currentBatch) ELSE done
    ELSE LET size  == textParamSize(ts[k])
             flush == currentBatchSize + size > availableSize /\ Len(currentBatch) > 0
         IN  batchesFrom(ts, k + 1,
                         IF flush THEN Append(done, currentBatch) ELSE done,
                         Append(IF flush THEN <<>> ELSE currentBatch, ts[k]),
                         (IF flush THEN 0 ELSE currentBatchSize) + size)

splitIntoBatches(ts) == batchesFrom(ts, 1, <<>>, <<>>, 0)

\* the translation the service returns for a text
translationOf(text) == "fr:" \o text

\* translateBatch: response.translations.map(translation => translation.text)
translateBatch(batch) == [k \in DOMAIN batch |-> translationOf(batch[k])]

\* an element of new Array(n) that was never written
Hole == <<>>

\* allTranslations[startIndex + i] = translations[i], for every i
placeTranslations(all, start, translations) ==
    [k \in DOMAIN all |->
        IF k > start /\ k <= start + Len(translations) THEN <<translations[k - start]>>
        ELSE all[k]]

\* the next handler emitting as soon as one batch has answered
anyBatchComplete(completed, total) == completed >= 1

\* completedBatches === batches.length
allBatchesComplete(completed, total) == completed = total

NextNotification(value) == [kind |-> "next", value |-> value]

ErrorNotification == [kind |-> "error"]

CompleteNotification == [kind |-> "complete"]

\* observer.next / observer.error / observer.complete: a subscriber that
\* has received error or complete ignores what follows
notify(received, stopped, sent) == IF stopped THEN received ELSE received \o sent

\* the longest texts list translateMultiple is given
MaxTexts == 3

TextCatalog == { "a", "b" }

TextInputs == SeqsUpTo(TextCatalog, MaxTexts)

\* translateFile has scanned a script and calls translateLines
DeepLInit ==
    /\ texts \in TextInputs
    /\ NotSubscribed
    /\ NoUsageFetched
    /\ NoFolderRun
    /\ lines = <<"">>
    /\ pc = "translateLines"
    /\ i = 0
    /\ inStrings = FALSE
    /\ linesToTranslate = texts
    /\ linesToFill = <<>>
    /\ translatedLines = <<>>
    /\ created = FALSE
    /\ filledLines = <<>>
    /\ argumentNulls = {}
    /\ availableFilledLines = <<>>
    /\ outputLines = <<>>
    /\ textSlots = <<>>
    /\ fillSlots = <<>>
    /\ attempts = <<>>

\* translateMultiple(texts, ...).subscribe(...): the texts are split and the
\* request of every batch is sent
TranslateMultiple ==
    /\ subscription = "none"
    /\ LET split == splitIntoBatches(texts)
       IN  IF Len(texts) = 0
           THEN /\ subscription' = "empty"
                /\ notifications' = <<NextNotification(<<>>), CompleteNotification>>
                /\ isStopped' = TRUE
                /\ UNCHANGED <<batches, inFlight, allTranslations>>
           ELSE /\ batches' = split
                /\ subscription' = IF Len(split) = 1 THEN "single" ELSE "multiple"
                /\ inFlight' = DOMAIN split
                /\ allTranslations' =
                      IF Len(split) = 1 THEN <<>> ELSE [k \in DOMAIN texts |-> Hole]
                /\ UNCHANGED <<notifications, isStopped>>
    /\ UNCHANGED <<fileVars, usageVars, folderVars, texts, completedBatches, startIndex, succeeded, failed>>

\* the request of batch b is answered with translations
BatchNext(b) ==
    /\ b \in inFlight
    /\ inFlight' = inFlight \ {b}
    /\ succeeded' = succeeded \cup {b}
    /\ LET translations == translateBatch(batches[b])
           placed == placeTranslations(allTranslations, startIndex, translations)
       IN  IF subscription = "single"
           THEN /\ notifications' =
                      <<NextNotification([k \in DOMAIN translations |-> <<translations[k]>>]),
                        CompleteNotification>>
                /\ isStopped' = TRUE
                /\ UNCHANGED <<allTranslations, completedBatches, startIndex>>
           ELSE /\ allTranslations' = placed
                /\ startIndex' = startIndex + Len(batches[b])
                /\ completedBatches' = completedBatches + 1
                /\ IF allBatchesComplete(completedBatches + 1, Len(batches))
                   THEN /\ notifications' =
                              notify(notifications, isStopped,
                                     <<NextNotification(placed), CompleteNotification>>)
                        /\ isStopped' = TRUE
                   ELSE UNCHANGED <<notifications, isStopped>>
    /\ UNCHANGED <<fileVars, usageVars, folderVars, texts, batches, subscription, failed>>

\* the request of batch b fails, or is answered without translations
BatchError(b) ==
    /\ b \in inFlight
    /\ inFlight' = inFlight \ {b}
    /\ failed' = failed \cup {b}
    /\ notifications' = notify(notifications, isStopped, <<ErrorNotification>>)
    /\ isStopped' = TRUE
    /\ UNCHANGED <<fileVars, usageVars, folderVars, texts, batches, subscription, allTranslations, completedBatches,
                   startIndex, succeeded>>

DeepLNext ==
    \/ TranslateMultiple
    \/ \E b \in DOMAIN batches : BatchNext(b)
    \/ \E b \in DOMAIN batches : BatchError(b)

DeepLSpec == DeepLInit /\ [][DeepLNext]_vars

(***************************************************************************)
(* The usage polling of FileTranslationComponent with the DeepL service:   *)
(* fetchApiUsage, the answer of fetchApiUsageWithRetry, and the timer that *)
(* calls fetchApiUsage again.  One sequence of fetches runs at a time.     *)
(***************************************************************************)
MAX_RETRY_ATTEMPTS == 10

\* the retry timer fires at most this many times in one sequence
MaxRefetches == 12

\* the character counts the service may report
UsageCounts == {0, 1}

\* the result fetchApiUsageWithRetry maps a response to
UsageResult(count, previous, retries, retry) ==
    [character_count |-> count, previousCharacterCount |-> previous,
     retryCount |-> retries, shouldRetry |-> retry]

\* the map of fetchApiUsageWithRetry on a response reporting `count`
fetchApiUsageWithRetry(count, previous, retries, maxRetryAttempts) ==
    IF count = previous /\ retries < maxRetryAttempts
    THEN UsageResult(count, previous, retries + 1, TRUE)
    ELSE UsageResult(count, previous, retries, FALSE)

\* setupApiUsageFetch: if (!this.isUpdatingUsage()) this.retryCount.set(0)
retryCountAtSetup(updating, retries) == IF updating THEN retries ELSE 0

\* fetchApiUsage(): setupApiUsageFetch, then the request with the previous
\* count, the retry count and MAX_RETRY_ATTEMPTS
fetchApiUsage ==
    /\ previousCharacterCount' = characterCount
    /\ retryCount' = retryCountAtSetup(isUpdatingUsage, retryCount)
    /\ usageRequest' = [previousCharacterCount |-> characterCount,
                        retryCount |-> retryCountAtSetup(isUpdatingUsage, retryCount)]
    /\ usagePc' = "fetching"

\* ngOnChanges: the key or the service was changed
FetchOnChange ==
    /\ usagePc = "idle"
    /\ fetchApiUsage
    /\ refetches' = 0
    /\ UNCHANGED <<fileVars, deeplVars, folderVars, characterCount, isUpdatingUsage>>

\* startCountdown, after a translation
StartCountdown ==
    /\ usagePc = "idle"
    /\ isUpdatingUsage' = TRUE
    /\ retryCount' = 0
    /\ usagePc' = "countdown"
    /\ refetches' = 0
    /\ UNCHANGED <<fileVars, deeplVars, folderVars, characterCount, previousCharacterCount, usageRequest>>

\* the countdown has reached 0
CountdownFinished ==
    /\ usagePc = "countdown"
    /\ fetchApiUsage
    /\ UNCHANGED <<fileVars, deeplVars, folderVars, characterCount, isUpdatingUsage, refetches>>

\* handleApiUsageResult on the result of a response reporting `count`
UsageResponse(count) ==
    /\ usagePc = "fetching"
    /\ LET result == fetchApiUsageWithRetry(count, usageRequest.previousCharacterCount,
                                            usageRequest.retryCount, MAX_RETRY_ATTEMPTS)
       IN  /\ characterCount' = result.character_count
           /\ IF result.shouldRetry
              THEN /\ retryCount' = result.retryCount         \* handleRetry
                   /\ usagePc' = "scheduled"
                   /\ UNCHANGED isUpdatingUsage
              ELSE /\ isUpdatingUsage' = FALSE                \* handleFetchComplete
                   /\ usagePc' = "idle"
                   /\ UNCHANGED retryCount
    /\ UNCHANGED <<fileVars, deeplVars, folderVars, previousCharacterCount, usageRequest, refetches>>

\* the request failed: catchError gives a result with count 0 and no retry
UsageFailure ==
    /\ usagePc = "fetching"
    /\ characterCount' = 0
    /\ isUpdatingUsage' = FALSE
    /\ usagePc' = "idle"
    /\ UNCHANGED <<fileVars, deeplVars, folderVars, previousCharacterCount, retryCount, usageRequest, refetches>>

\* setTimeout(() => this.fetchApiUsage(), 2000) fires
RetryTimer ==
    /\ usagePc = "scheduled"
    /\ refetches < MaxRefetches
    /\ fetchApiUsage
    /\ refetches' = refetches + 1
    /\ UNCHANGED <<fileVars, deeplVars, folderVars, characterCount, isUpdatingUsage>>

UsageInit ==
    /\ NoUsageFetched
    /\ NoFolderRun
    /\ texts = <<>>
    /\ NotSubscribed
    /\ lines = <<"">>
    /\ pc = "usage"
    /\ i = 0
    /\ inStrings = FALSE
    /\ linesToTranslate = <<>>
    /\ linesToFill = <<>>
    /\ translatedLines = <<>>
    /\ created = FALSE
    /\ filledLines = <<>>
    /\ argumentNulls = {}
    /\ availableFilledLines = <<>>
    /\ outputLines = <<>>
    /\ textSlots = <<>>
    /\ fillSlots = <<>>
    /\ attempts = <<>>

UsageNext ==
    \/ FetchOnChange
    \/ StartCountdown
    \/ CountdownFinished
    \/ \E count \in UsageCounts : UsageResponse(count)
    \/ UsageFailure
    \/ RetryTimer

UsageSpec == UsageInit /\ [][UsageNext]_vars

(***************************************************************************)
(* Folder translation: FolderTranslationService.translateFiles and         *)
(* FolderTranslationComponent.translateFolder.  A file is known by the     *)
(* texts extractLines found in it, a text by its length; the provider      *)
(* answers a call with one translation per text or fails, and reading a    *)
(* file may fail.                                                          *)
(***************************************************************************)
\* the most files in the folder
MaxFiles == 3

\* character_limit of the usage fetched at the start of the run
MaxQuota == 4

\* usage.file_char_limit of the Google service
GoogleFileCharLimit == 3

\* the texts of a file, by their lengths
FileCatalog == { <<>>, <<1>>, <<2>>, <<1, 2>>, <<2, 2>> }

FolderInputs == SeqsUpTo(FileCatalog, MaxFiles) \ { <<>> }

\* texts.reduce((total, text) => total + text.length, 0)
RECURSIVE calculateCharacterCount(_)
calculateCharacterCount(ts) ==
    IF ts = <<>> THEN 0 ELSE ts[1] + calculateCharacterCount(Tail(ts))

\* preScan / preScanFolder: one meta per file
preScan(fs) ==
    [k \in DOMAIN fs |->
        [file |-> k, textsToTranslate |-> fs[k], charCount |-> calculateCharacterCount(fs[k])]]

\* the usage the service reports
Usages ==
    [character_limit : {MaxQuota}, character_count : 0..(MaxQuota + 1),
     file_char_limit : {GoogleFileCharLimit}]

\* remainingFromUsage without Math.max(0, ...)
remainingFromUsageUnclamped(api, u) == u.character_limit - u.character_count

\* remainingFromUsage: the usage has no weekly or daily fields, so that for
\* google-free the three remainders are the monthly one
remainingFromUsage(api, u) ==
    IF u.character_limit - u.character_count > 0
    THEN u.character_limit - u.character_count
    ELSE 0

\* a list of metas with `m` put behind the last meta whose charCount is not greater
RECURSIVE insertByCharCount(_, _)
insertByCharCount(sorted, m) ==
    IF sorted = <<>> THEN <<m>>
    ELSE IF sorted[Len(sorted)].charCount <= m.charCount THEN Append(sorted, m)
    ELSE Append(insertByCharCount(SubSeq(sorted, 1, Len(sorted) - 1), m), sorted[Len(sorted)])

RECURSIVE sortedPrefix(_, _)
sortedPrefix(ms, n) ==
    IF n = 0 THEN <<>> ELSE insertByCharCount(sortedPrefix(ms, n - 1), ms[n])

\* metas kept in the order of the folder
sortByCharCountUnsorted(ms) == ms

\* metas.sort((a, b) => a.charCount - b.charCount): ascending, stable
sortByCharCount(ms) == sortedPrefix(ms, Len(ms))

\* the count of leading texts taken while acc + text.length <= remaining
RECURSIVE partialCount(_, _, _, _)
partialCount(ts, left, count, acc) ==
    IF count < Len(ts) /\ acc + ts[count + 1] <= left
    THEN partialCount(ts, left, count + 1, acc + ts[count + 1])
    ELSE count

\* TranslationApiService.translateTexts: no call for no texts; the error of
\* the provider is caught and answered with no translations
translateTexts(ts, answered) ==
    IF ts = <<>> THEN <<>>
    ELSE IF answered THEN [k \in DOMAIN ts |-> "fr"]
    ELSE <<>>

\* the usage is fetched, the metas are sorted
FolderStart ==
    /\ folderPc = "start"
    /\ \E u \in Usages :
          /\ remaining' = remainingFromUsage(selectedApi, u)
          /\ startRemaining' = remainingFromUsage(selectedApi, u)
    /\ candidates' = sortByCharCount(preScan(files))
    /\ folderPc' = "loop"
    /\ UNCHANGED <<nonFolderVars, caller, selectedApi, files, position, partialUsed, status, zip, submitted>>

InLoop(c) == folderPc = "loop" /\ caller = c /\ position <= Len(candidates)

meta == candidates[position]

overFileCap == selectedApi = "google-free" /\ meta.charCount > GoogleFileCharLimit

\* zip.file(meta.relativePath, replaced)
ZipEntry(m, sent, translated, part) ==
    [file |-> m.file, texts |-> Len(m.textsToTranslate), sent |-> sent,
     translated |-> Len(translated), partial |-> part]

\* a call of the provider
Submission(m, ts, part) ==
    IF ts = <<>> THEN <<>>
    ELSE <<[file |-> m.file, charCount |-> m.charCount,
            chars |-> calculateCharacterCount(ts), partial |-> part]>>

(* translateFiles *)
ServiceSkip ==
    /\ InLoop("service")
    /\ meta.charCount = 0 \/ overFileCap
    /\ position' = position + 1
    /\ UNCHANGED <<nonFolderVars, folderPc, caller, selectedApi, files, candidates, remaining, startRemaining,
                   partialUsed, status, zip, submitted>>

\* await meta.file.text() rejects: translateFiles rejects
ServiceReadFails ==
    /\ InLoop("service")
    /\ ~(meta.charCount = 0 \/ overFileCap)
    /\ folderPc' = "rejected"
    /\ UNCHANGED <<nonFolderVars, caller, selectedApi, files, candidates, position, remaining, startRemaining,
                   partialUsed, status, zip, submitted>>

ServiceFull ==
    /\ InLoop("service")
    /\ ~(meta.charCount = 0 \/ overFileCap)
    /\ meta.charCount <= remaining
    /\ \E answered \in BOOLEAN :
          LET translated == translateTexts(meta.textsToTranslate, answered)
          IN  zip' = Append(zip, ZipEntry(meta, Len(meta.textsToTranslate), translated, FALSE))
    /\ submitted' = submitted \o Submission(meta, meta.textsToTranslate, FALSE)
    /\ remaining' = remaining - meta.charCount
    /\ position' = position + 1
    /\ UNCHANGED <<nonFolderVars, folderPc, caller, selectedApi, files, candidates, startRemaining, partialUsed,
                   status>>

ServicePartial ==
    /\ InLoop("service")
    /\ ~(meta.charCount = 0 \/ overFileCap)
    /\ meta.charCount > remaining /\ remaining > 0
    /\ LET count == partialCount(meta.textsToTranslate, remaining, 0, 0)
           partialTexts == SubSeq(meta.textsToTranslate, 1, count)
       IN  IF count > 0
           THEN /\ \E answered \in BOOLEAN :
                      zip' = Append(zip, ZipEntry(meta, count, translateTexts(partialTexts, answered), TRUE))
                /\ submitted' = submitted \o Submission(meta, partialTexts, TRUE)
           ELSE UNCHANGED <<zip, submitted>>
    /\ folderPc' = "done"
    /\ UNCHANGED <<nonFolderVars, caller, selectedApi, files, candidates, position, remaining, startRemaining,
                   partialUsed, status>>

\* no remaining quota: break
ServiceStop ==
    /\ InLoop("service")
    /\ ~(meta.charCount = 0 \/ overFileCap)
    /\ meta.charCount > remaining /\ remaining <= 0
    /\ folderPc' = "done"
    /\ UNCHANGED <<nonFolderVars, caller, selectedApi, files, candidates, position, remaining, startRemaining,
                   partialUsed, status, zip, submitted>>

(* translateFolder *)
ComponentSkip ==
    /\ InLoop("component")
    /\ overFileCap \/ remaining <= 0
    /\ status' = [status EXCEPT ![meta.file] = "skipped"]
    /\ position' = position + 1
    /\ UNCHANGED <<nonFolderVars, folderPc, caller, selectedApi, files, candidates, remaining, startRemaining,
                   partialUsed, zip, submitted>>

\* await meta.file.text() rejects: the catch clause
ComponentReadFails ==
    /\ InLoop("component")
    /\ ~(overFileCap \/ remaining <= 0)
    /\ status' = [status EXCEPT ![meta.file] = "error"]
    /\ position' = position + 1
    /\ UNCHANGED <<nonFolderVars, folderPc, caller, selectedApi, files, candidates, remaining, startRemaining,
                   partialUsed, zip, submitted>>

ComponentFull ==
    /\ InLoop("component")
    /\ ~(overFileCap \/ remaining <= 0)
    /\ meta.charCount <= remaining
    /\ \E answered \in BOOLEAN :
          LET translated == translateTexts(meta.textsToTranslate, answered)
          IN  zip' = Append(zip, ZipEntry(meta, Len(meta.textsToTranslate), translated, FALSE))
    /\ submitted' = submitted \o Submission(meta, meta.textsToTranslate, FALSE)
    /\ status' = [status EXCEPT ![meta.file] = "translated"]
    /\ remaining' = remaining - meta.charCount
    /\ position' = position + 1
    /\ UNCHANGED <<nonFolderVars, folderPc, caller, selectedApi, files, candidates, startRemaining, partialUsed>>

ComponentPartial ==
    /\ InLoop("component")
    /\ ~(overFileCap \/ remaining <= 0)
    /\ meta.charCount > remaining
    /\ IF ~partialUsed
       THEN LET count == partialCount(meta.textsToTranslate, remaining, 0, 0)
                partialTexts == SubSeq(meta.textsToTranslate, 1, count)
            IN  /\ \E answered \in BOOLEAN :
                      zip' = Append(zip, ZipEntry(meta, count, translateTexts(partialTexts, answered), TRUE))
                /\ submitted' = submitted \o Submission(meta, partialTexts, TRUE)
                /\ status' = [status EXCEPT ![meta.file] = "partial"]
                /\ remaining' = 0
                /\ partialUsed' = TRUE
       ELSE /\ status' = [status EXCEPT ![meta.file] = "skipped"]
            /\ UNCHANGED <<zip, submitted, remaining, partialUsed>>
    /\ position' = position + 1
    /\ UNCHANGED <<nonFolderVars, folderPc, caller, selectedApi, files, candidates, startRemaining>>

\* the loop is over: the zip is generated
FolderFinish ==
    /\ folderPc = "loop" /\ position > Len(candidates)
    /\ folderPc' = "done"
    /\ UNCHANGED <<nonFolderVars, caller, selectedApi, files, candidates, position, remaining, startRemaining,
                   partialUsed, status, zip, submitted>>

FolderInit ==
    /\ folderPc = "start"
    /\ caller \in {"service", "component"}
    /\ selectedApi \in {"deepl-free", "google-free"}
    /\ files \in FolderInputs
    /\ candidates = <<>>
    /\ position = 1
    /\ remaining = 0
    /\ startRemaining = 0
    /\ partialUsed = FALSE
    /\ status = [k \in DOMAIN files |-> "pending"]
    /\ zip = <<>>
    /\ submitted = <<>>
    /\ NoUsageFetched
    /\ texts = <<>>
    /\ NotSubscribed
    /\ lines = <<"">>
    /\ pc = "folder"
    /\ i = 0
    /\ inStrings = FALSE
    /\ linesToTranslate = <<>>
    /\ linesToFill = <<>>
    /\ translatedLines = <<>>
    /\ created = FALSE
    /\ filledLines = <<>>
    /\ argumentNulls = {}
    /\ availableFilledLines = <<>>
    /\ outputLines = <<>>
    /\ textSlots = <<>>
    /\ fillSlots = <<>>
    /\ attempts = <<>>

FolderNext ==
    \/ FolderStart
    \/ ServiceSkip
    \/ ServiceReadFails
    \/ ServiceFull
    \/ ServicePartial
    \/ ServiceStop
    \/ ComponentSkip
    \/ ComponentReadFails
    \/ ComponentFull
    \/ ComponentPartial
    \/ FolderFinish

FolderSpec == FolderInit /\ [][FolderNext]_vars

(***************************************************************************)
(* Properties.  The lists the functions build only grow and the record of  *)
(* the attempts is complete when replaceLines returns, so the properties   *)
(* of a whole run are stated of the states in which it is done.            *)
(***************************************************************************)
Done == pc = "done"

\* the 0-based indices of the lines of a list
Indices(ls) == 0..(Len(ls) - 1)

\* a line with an empty quoted payload
hasEmptyPayload(line) == includes(trim(line), "\"\"")

\* C1: extractLines and findLinesToFill return lists of the same length, and
\* the i-th text and the i-th descriptor come from the same source line and
\* belong to the same slot line, also when the source text, the command or
\* the old text is empty.
C1_ScannerListsParallel ==
    Done => /\ Len(linesToTranslate) = Len(linesToFill)
            /\ textSlots = fillSlots

\* C2: the text replaceLines returns has as many lines as the input, and
\* every line of it that is not an empty slot is the input line of the same
\* index, lines of truncated and unrecognized blocks included.
C2_OtherLinesPreserved ==
    Done => /\ Len(outputLines) = Len(lines)
            /\ \A k \in Indices(lines) :
                  ~hasEmptyPayload(At(lines, k)) => At(outputLines, k) = At(lines, k)

\* C3: the lines on which replaceLines looks for a filled line are, in scan
\* order, the slot lines for which findLinesToFill emits a descriptor.
C3_SameSlotsScannedAndRewritten ==
    Done => [k \in DOMAIN attempts |-> attempts[k].line]
              = [k \in DOMAIN fillSlots |-> fillSlots[k].slot]

\* C4: replaceLines with no filled lines returns the script unchanged, also
\* for truncated and unrecognized dialogue blocks.
C4_NoFillsIsIdentity ==
    (Done /\ filledLines = <<>>) => outputLines = lines

\* the commands and source texts of the well-formed lines the properties name
Commands == {"e", "n"}

SourceTexts == {"Hi", "Yo", "Yes", "No"}

commentLine(c, x) == "# " \o c \o " \"" \o x \o "\""

slotLine(c) == c \o " \"\""

\* a block header of either kind
isHeaderLine(line) ==
    \/ startsWith(trim(line), "# game/")
    \/ startsWith(trim(line), "translate french strings:")

\* the only block header of the script is a dialogue header at index k
OnlyBlockAt(ls, k) ==
    /\ k + 4 < Len(ls)
    /\ isDialogueHeader(ls, k)
    /\ \A j \in Indices(ls) \ {k} : ~isHeaderLine(At(ls, j))

\* the only block of the script is a dialogue block at index k, with one
\* comment line of command c and text x, followed by the empty slot of c
OneSingleCommentBlock(ls, k, c, x) ==
    /\ OnlyBlockAt(ls, k)
    /\ trim(At(ls, k + 3)) = commentLine(c, x)
    /\ trim(At(ls, k + 4)) = slotLine(c)

\* C5: for a script with one single-comment dialogue block with an empty
\* slot of command c, extractLines returns the comment's quoted text,
\* findLinesToFill returns the descriptor of c, and replaceLines given the one
\* filled line of c writes it at the slot's index behind four spaces,
\* whatever the slot's indentation, every other line staying as it was.
C5_SingleCommentBlockFilled ==
    Done =>
        \A k \in { j \in Indices(lines) : OnlyBlockAt(lines, j) }, c \in Commands, x \in SourceTexts :
            OneSingleCommentBlock(lines, k, c, x) =>
                /\ linesToTranslate = <<x>>
                /\ linesToFill = <<slotLine(c)>>
                /\ (Len(filledLines) = 1 /\ filledLineCommand(filledLines[1]) = c) =>
                      /\ Len(outputLines) = Len(lines)
                      /\ At(outputLines, k + 4) = "    " \o filledLines[1]
                      /\ \A j \in Indices(lines) \ {k + 4} : At(outputLines, j) = At(lines, j)

\* a single-comment block whose slot was not indented by four spaces is filled
C5_Witness ==
    /\ Done
    /\ \E k \in Indices(lines), c \in Commands, x \in SourceTexts :
          /\ OneSingleCommentBlock(lines, k, c, x)
          /\ At(lines, k + 4) = slotLine(c)
          /\ filledLines = <<c \o " \"U\"">>
          /\ At(outputLines, k + 4) = "    " \o c \o " \"U\""

\* line k lies inside a strings block: below a strings header, with no line
\* in between that starts with translate and is not itself a strings header
InsideStringsBlock(ls, k) ==
    \E h \in Indices(ls) :
        /\ h < k
        /\ startsWith(trim(At(ls, h)), "translate french strings:")
        /\ \A j \in (h + 1)..k : ~leavesStringsBlock(trim(At(ls, j)))

\* lines k and k + 1 are the pair old "x" / new ""
IsEmptyPair(ls, k, x) ==
    /\ k + 1 < Len(ls)
    /\ trim(At(ls, k)) = "old \"" \o x \o "\""
    /\ trim(At(ls, k + 1)) = "new \"\""

\* the entries of a list of available filled lines that are not used
Unused(avail) == { n \in DOMAIN avail : avail[n] # Null }

\* the unused entries whose command is exactly c
UnusedOf(avail, c) == { n \in Unused(avail) : filledLineCommand(avail[n][1]) = c }

\* the script holds no dialogue block
NoDialogueBlock(ls) == \A j \in Indices(ls) : ~isDialogueHeader(ls, j)

\* C6: for every pair old "X" / new "" inside a strings block, extractLines
\* emits X for it, findLinesToFill emits new "" for it, and replaceLines,
\* whenever a filled line of command new is left unused, has replaced the new
\* line by four spaces and a filled line of command new, the old line
\* unchanged.  Stated for the scripts that hold strings blocks only, where no
\* dialogue block can hide a strings header.
C6_StringsPairFilled ==
    \A k \in Indices(lines), x \in SourceTexts :
        (Done /\ NoDialogueBlock(lines) /\ IsEmptyPair(lines, k, x) /\ InsideStringsBlock(lines, k)) =>
            /\ \E n \in DOMAIN textSlots :
                  textSlots[n].src = k /\ linesToTranslate[n] = x
            /\ \E n \in DOMAIN fillSlots :
                  fillSlots[n].slot = k + 1 /\ linesToFill[n] = "new \"\""
            /\ UnusedOf(availableFilledLines, "new") # {} =>
                  /\ Len(outputLines) = Len(lines)
                  /\ At(outputLines, k) = At(lines, k)
                  /\ \E n \in DOMAIN filledLines :
                        /\ filledLineCommand(filledLines[n]) = "new"
                        /\ At(outputLines, k + 1) = "    " \o filledLines[n]

Min(S) == CHOOSE n \in S : \A m \in S : n <= m

\* the line an attempt pushed on outputLines
Pushed(a) == outputLines[a.out]

\* C7: when replaceLines looks for a filled line of command c and unused
\* filled lines of exactly that command exist, the slot receives the one of
\* lowest index among them.
C7_ExactCommandFirst ==
    Done =>
        \A n \in DOMAIN attempts :
            LET a == attempts[n]
                same == UnusedOf(a.before, a.command)
            IN  same # {} =>
                    /\ a.index + 1 = Min(same)
                    /\ Pushed(a) = "    " \o filledLines[Min(same)]

\* a slot took a filled line of its command that was not the first unused one
C7_Witness ==
    Done /\ \E n \in DOMAIN attempts :
        LET a == attempts[n]
        IN  /\ UnusedOf(a.before, a.command) # {}
            /\ Min(UnusedOf(a.before, a.command)) > Min(Unused(a.before))
            /\ Pushed(a) = "    " \o filledLines[a.index + 1]

\* C8: a dialogue slot whose command is not new and of whose command no
\* unused filled line exists receives the unused filled line of lowest index,
\* whatever its command; it keeps its line only when no filled line is unused.
C8_DialogueFallsBackToFirstUnused ==
    Done =>
        \A n \in DOMAIN attempts :
            LET a == attempts[n]
            IN  (~a.strings /\ a.command # "new" /\ UnusedOf(a.before, a.command) = {}) =>
                    IF Unused(a.before) # {}
                    THEN /\ a.index + 1 = Min(Unused(a.before))
                         /\ Pushed(a) = "    " \o filledLines[Min(Unused(a.before))]
                    ELSE /\ a.index = -1
                         /\ Pushed(a) = At(lines, a.line)

\* a dialogue slot took a filled line of another command that was not the
\* first entry of the list
C8_Witness ==
    Done /\ \E n \in DOMAIN attempts :
        LET a == attempts[n]
        IN  /\ ~a.strings /\ a.command # "new"
            /\ UnusedOf(a.before, a.command) = {}
            /\ a.index >= 1
            /\ Pushed(a) = "    " \o filledLines[a.index + 1]

\* C9: a strings-block slot takes only an unused filled line of command new;
\* when there is none, its line is output unchanged and no filled line is
\* used, whatever other entries remain.
C9_StringsSlotStrict ==
    Done =>
        \A n \in DOMAIN attempts :
            LET a == attempts[n]
            IN  a.strings =>
                    /\ a.index # -1 =>
                          /\ a.index + 1 \in UnusedOf(a.before, "new")
                          /\ Pushed(a) = "    " \o filledLines[a.index + 1]
                    /\ UnusedOf(a.before, "new") = {} =>
                          /\ a.index = -1
                          /\ Pushed(a) = At(lines, a.line)
                          /\ a.after = a.before

\* a strings slot stayed empty although filled lines of other commands remained
C9_Witness ==
    Done /\ \E n \in DOMAIN attempts :
        LET a == attempts[n]
        IN  /\ a.strings
            /\ Unused(a.before) # {}
            /\ UnusedOf(a.before, "new") = {}
            /\ Pushed(a) = At(lines, a.line)
            /\ trim(At(lines, a.line)) = "new \"\""

\* the attempts that found a filled line
Substituted == { n \in DOMAIN attempts : attempts[n].index # -1 }

\* C10: within one call no element of filledLines is written into more than
\* one output line, a used entry is never selected again, and the substituted
\* lines are never more than the filled lines.
C10_FilledLineUsedAtMostOnce ==
    Done =>
        /\ \A n, m \in Substituted : attempts[n].index = attempts[m].index => n = m
        /\ \A n \in Substituted : attempts[n].index + 1 \in Unused(attempts[n].before)
        /\ Cardinality(Substituted) <= Len(filledLines)
        /\ ~emptyContent(lines) =>
              Unused(availableFilledLines)
                = DOMAIN filledLines \ { attempts[n].index + 1 : n \in Substituted }

\* a second slot of the same command found its only filled line already used
C10_Witness ==
    Done /\ \E n, m \in DOMAIN attempts :
        /\ n < m
        /\ attempts[n].command = attempts[m].command
        /\ attempts[n].index # -1
        /\ attempts[m].index = -1
        /\ Len(filledLines) >= 1

\* the quoted payload of a line: what stands between its first and its last
\* double quote
payload(line) == quotedText(line)

\* C11: replaceLines looks for no filled line for a slot line whose quoted
\* payload is not empty: the line is output as it is and no filled line is
\* used for it, also when the payload ends with an escaped quote.
C11_TranslatedSlotsUntouched ==
    Done =>
        \A n \in DOMAIN attempts :
            LET a == attempts[n]
            IN  payload(At(lines, a.line)) # "" =>
                    /\ a.index = -1
                    /\ Pushed(a) = At(lines, a.line)
                    /\ a.after = a.before

\* a line that carries a quoted payload and is neither a comment nor an old line
isSlotLine(line) ==
    /\ ~startsWith(trim(line), "#")
    /\ ~startsWith(trim(line), "old ")
    /\ includes(line, Quote)

\* every slot line of the script already carries text
NoEmptySlot(ls) ==
    \A k \in Indices(ls) : isSlotLine(At(ls, k)) => payload(At(ls, k)) # ""

\* C12: for a script in which no slot line has an empty payload, extractLines
\* and findLinesToFill both return the empty list.
C12_NothingScannedWithoutEmptySlot ==
    (Done /\ NoEmptySlot(lines)) => (linesToTranslate = <<>> /\ linesToFill = <<>>)

\* the dialogue block whose header is at index k lacks its slot line: the
\* script ends before the line the block's comment lines announce
TruncatedBlockAt(ls, k) ==
    /\ isDialogueHeader(ls, k)
    /\ \/ Len(ls) <= k + 4
       \/ /\ trimmedStartsWith(ls, k + 3, "#") /\ trimmedStartsWith(ls, k + 4, "#")
          /\ \/ Len(ls) = k + 5
             \/ Len(ls) = k + 6 /\ ~includes(At(ls, k + 5), Quote)

\* nothing was emitted for the lines from index k on
NothingEmittedFrom(k) ==
    /\ \A n \in DOMAIN textSlots : textSlots[n].src < k
    /\ \A n \in DOMAIN fillSlots : fillSlots[n].src < k

\* the functions in the order they are called
Phase ==
    CASE pc = "extractLines" -> 0
      [] pc = "findLinesToFill" -> 1
      [] pc = "call" -> 2
      [] pc = "created" -> 3
      [] pc = "replaceLines" -> 4
      [] pc = "done" -> 5

\* how far the run has come: the function, then its line index, then
\* whether its strings loop has been left at that index
Progress ==
    Phase * (2 * Len(lines) + 20) + 2 * i + (IF inStrings THEN 0 ELSE 1)

\* C13: on every script, a dialogue header followed by too few lines
\* included, extractLines, findLinesToFill and replaceLines all return: every
\* step they take brings the run forward, none reading a line that is not
\* there (lines[k] is defined for the indices of the script only); and the
\* scanner emits no text and no descriptor for a truncated block.
C13_ReturnsOnEveryInput ==
    /\ [][Progress' > Progress]_vars
    /\ [](Done => \A k \in Indices(lines) : TruncatedBlockAt(lines, k) => NothingEmittedFrom(k))

\* the three functions returned on a script that ends inside a block with two
\* comment lines, replaceLines having filled lines to give
C13_Witness ==
    /\ Done
    /\ filledLines # <<>>
    /\ \E k \in Indices(lines) :
          /\ TruncatedBlockAt(lines, k)
          /\ trimmedStartsWith(lines, k + 4, "#")

\* the text of a line before its first double quote, trimmed
textBeforeQuote(line) ==
    LET q == indexOf(line, Quote)
    IN  trim(IF q = 0 THEN line ELSE SubSeq(line, 1, q - 1))

\* C14: createFilledLines returns as many lines as the shorter of its two
\* lists holds, and its k-th line is the k-th descriptor's text before its
\* first double quote, trimmed, then a space and the k-th translation in
\* double quotes, so that the command of the k-th filled line is the command
\* of the k-th descriptor.
C14_FilledLinesPairedByIndex ==
    (Done /\ created) =>
        /\ Len(filledLines) = Min({Len(linesToFill), Len(translatedLines)})
        /\ \A k \in DOMAIN filledLines :
              /\ filledLines[k]
                    = textBeforeQuote(linesToFill[k]) \o " \"" \o translatedLines[k] \o "\""
              /\ filledLineCommand(filledLines[k]) = textBeforeQuote(linesToFill[k])

\* fewer translations than descriptors were given, and a line was made for
\* each translation only
C14_Witness ==
    /\ Done /\ created
    /\ Len(translatedLines) >= 1
    /\ Len(translatedLines) < Len(linesToFill)
    /\ Len(filledLines) = Len(translatedLines)

\* C15 as claimed: extractCommand returns the empty string for no line that
\* still has characters after trimming, a lone # included.
C15_EmptyCommandOnlyForEmptyLine ==
    Done => \A k \in Indices(lines) :
                trim(At(lines, k)) # "" => extractCommand(At(lines, k)) # ""

\* C15: extractCommand returns the empty string exactly for the lines of
\* which nothing is left once they are trimmed and a leading # and the
\* whitespace after it are removed, a lone # included; for every other line
\* it returns a command that is not empty.
C15_EmptyCommandOnlyForEmptyCleanedLine ==
    Done => \A k \in Indices(lines) :
                extractCommand(At(lines, k)) = "" <=> cleanedLine(At(lines, k)) = ""

\* the scanner read the command of a lone # above an empty slot and emitted
\* no descriptor for the slot
C15_Witness ==
    /\ Done
    /\ \E k \in Indices(lines) :
          /\ isDialogueHeader(lines, k)
          /\ k + 4 < Len(lines)
          /\ trim(At(lines, k + 3)) = "#"
          /\ extractCommand(At(lines, k + 3)) = ""
          /\ hasEmptyPayload(At(lines, k + 4))
          /\ \E n \in DOMAIN attempts : attempts[n].line = k + 4
          /\ \A n \in DOMAIN fillSlots : fillSlots[n].slot # k + 4

\* a step of replaceLines leaves the list and the script it was passed
ArgumentsKept ==
    pc \in {"created", "replaceLines"} => (filledLines' = filledLines /\ lines' = lines)

Results == { n \in DOMAIN notifications : notifications[n].kind = "next" }

\* C17: the array translateMultiple delivers has the length of texts and
\* holds at every index the translation of the text of that index, whatever
\* the number of batches and the order in which they are answered.
C17_TranslationsInInputOrder ==
    \A n \in Results :
        notifications[n].value = [k \in DOMAIN texts |-> <<translationOf(texts[k])>>]

\* C18: translateMultiple delivers at most one result array, and only once
\* every batch has been answered with translations; when a batch has failed
\* the subscriber has received an error and no result array, in whatever
\* order the other batches are answered.
C18_AllOrNothing ==
    /\ Cardinality(Results) <= 1
    /\ Results # {} => (succeeded = DOMAIN batches /\ failed = {} /\ inFlight = {})
    /\ failed # {} =>
          /\ Results = {}
          /\ \E n \in DOMAIN notifications : notifications[n].kind = "error"

\* of three batches one failed after another had answered and before the
\* last one did, which then answered: one error, no result
C18_Witness ==
    /\ Len(batches) = 3
    /\ inFlight = {}
    /\ Cardinality(succeeded) = 2
    /\ Cardinality(failed) = 1
    /\ notifications = <<ErrorNotification>>

\* C19: when replaceLines is given createFilledLines(findLinesToFill(s), T),
\* T holding one translation for each text extractLines(s) returned, in
\* order, the line replaceLines outputs for the slot of the k-th extracted
\* text carries T[k].
C19_SlotGetsOwnTranslation ==
    (Done /\ created /\ Len(translatedLines) = Len(linesToTranslate)) =>
        \A k \in DOMAIN textSlots :
            \E n \in DOMAIN attempts :
                /\ attempts[n].line = textSlots[k].slot
                /\ payload(Pushed(attempts[n])) = translatedLines[k]

\* a line that starts with translate and is not a strings header
isOtherTranslateLine(line) ==
    startsWith(trim(line), "translate") /\ ~includes(trim(line), "strings:")

\* line k is the strings header at line h or lies below it, with no line
\* after h and up to k that starts with translate and is not a strings header
BelowStringsHeader(ls, h, k) ==
    /\ h <= k
    /\ startsWith(trim(At(ls, h)), "translate french strings:")
    /\ \A j \in (h + 1)..k : ~isOtherTranslateLine(At(ls, j))

\* line j is a comment line
isCommentLine(ls, j) == startsWith(trim(At(ls, j)), "#")

\* the scanner is in the loop of a strings block
InStringsLoop == pc \in {"extractLines", "findLinesToFill"} /\ inStrings

\* C20 as stated: a line of a strings block that is neither blank nor
\* prefixed with old " ends the block, so that a pair old "X" / new ""
\* located after a comment line, with no further strings header before it,
\* is emitted by neither scan.
C20_PairAfterCommentNotEmitted ==
    \A k \in Indices(lines), x \in SourceTexts :
        (/\ Done
         /\ IsEmptyPair(lines, k, x)
         /\ \E h, j \in Indices(lines) :
               /\ h < j /\ j < k
               /\ isStringsHeader(lines, h)
               /\ isCommentLine(lines, j)
               /\ \A m \in (h + 1)..k : ~isStringsHeader(lines, m)) =>
            /\ \A n \in DOMAIN textSlots : textSlots[n].src # k
            /\ \A n \in DOMAIN fillSlots : fillSlots[n].slot # k + 1

\* leaving the loop of a strings block leaves the index where it is, and
\* before the end of the script only at a translate line that is not a
\* strings header
StringsLoopLeftAtTranslate ==
    (InStringsLoop /\ ~inStrings') =>
        /\ i' = i
        /\ i < Len(lines) => isOtherTranslateLine(At(lines, i))

\* C20, amended: the loop of a strings block ends only at a line that starts
\* with translate and is not a strings header, or at the end of the script,
\* and does not consume that line; every other line that is not prefixed
\* with old ", a comment line included, is passed over.  So in a script of
\* strings blocks a pair old "X" / new "" below a strings header is emitted by
\* both scans whatever lines precede it, and a pair is emitted only below a
\* strings header with no other translate line in between.
C20_StringsBlockEndsAtTranslateOnly ==
    /\ [](\A k \in Indices(lines), x \in SourceTexts :
            (/\ Done /\ NoDialogueBlock(lines)
             /\ IsEmptyPair(lines, k, x)
             /\ \E h \in Indices(lines) : BelowStringsHeader(lines, h, k)) =>
                /\ \E n \in DOMAIN textSlots : textSlots[n].src = k
                /\ \E n \in DOMAIN fillSlots : fillSlots[n].slot = k + 1)
    /\ [](\A n \in DOMAIN textSlots :
            startsWith(trim(At(lines, textSlots[n].src)), "old \"") =>
                \E h \in Indices(lines) : BelowStringsHeader(lines, h, textSlots[n].src))
    /\ [](InStringsLoop =>
            \E h \in Indices(lines) : BelowStringsHeader(lines, h, i - 1))
    /\ [][StringsLoopLeftAtTranslate]_vars

\* a pair that follows a comment line of its strings block has been emitted
\* by both scans
C20_Witness ==
    /\ Done
    /\ \E k \in Indices(lines), x \in SourceTexts :
          /\ k > 0
          /\ IsEmptyPair(lines, k, x)
          /\ isCommentLine(lines, k - 1)
          /\ \E h \in Indices(lines) : BelowStringsHeader(lines, h, k)
          /\ \E n \in DOMAIN textSlots : textSlots[n].src = k
          /\ \E n \in DOMAIN fillSlots : fillSlots[n].slot = k + 1

\* the main loop is at the header of a dialogue block whose lines k + 3 and
\* k + 4 both start with #
TwoCommentBlockAt(ls, k) ==
    /\ isDialogueHeader(ls, k)
    /\ trimmedStartsWith(ls, k + 3, "#")
    /\ trimmedStartsWith(ls, k + 4, "#")

\* the line after the two comments holds no double quote
CommandWithoutQuotesAt(ls, k) == ~includes(trim(At(ls, k + 5)), Quote)

\* the slot line of a two-comment block
SlotExamined(ls, k) == IF CommandWithoutQuotesAt(ls, k) THEN k + 6 ELSE k + 5

\* `f` handles a two-comment block that has a line after its comments
HandlesTwoCommentBlock(f) ==
    AtLine(f) /\ TwoCommentBlockAt(lines, i) /\ i + 5 < Len(lines)

C21_Extract ==
    HandlesTwoCommentBlock("extractLines") =>
        \/ textSlots' = textSlots /\ linesToTranslate' = linesToTranslate
        \/ /\ textSlots' = Append(textSlots, [src |-> i + 4, slot |-> SlotExamined(lines, i)])
           /\ linesToTranslate' = Append(linesToTranslate, quotedText(At(lines, i + 4)))

C21_Fill ==
    HandlesTwoCommentBlock("findLinesToFill") =>
        \/ fillSlots' = fillSlots /\ linesToFill' = linesToFill
        \/ /\ fillSlots' = Append(fillSlots, [src |-> i + 4, slot |-> SlotExamined(lines, i)])
           /\ linesToFill' = Append(linesToFill, extractCommand(At(lines, i + 4)) \o " \"\"")

C21_Replace ==
    HandlesTwoCommentBlock("replaceLines") =>
        /\ \/ attempts' = attempts
           \/ /\ Len(attempts') = Len(attempts) + 1
              /\ attempts'[Len(attempts')].line = SlotExamined(lines, i)
        /\ LET pushed == SubSeq(outputLines', Len(outputLines) + 1, Len(outputLines'))
           IN  /\ SubSeq(outputLines', 1, Len(outputLines)) = outputLines
               /\ Len(pushed) = SlotExamined(lines, i) - i + 1
               /\ \A n \in 1..(Len(pushed) - 1) : pushed[n] = At(lines, i + n - 1)

\* C21: in a dialogue block whose lines i + 3 and i + 4 both start with #,
\* the text extractLines emits and the command findLinesToFill emits are
\* those of the second comment line, i + 4; the slot is line i + 6 when line
\* i + 5 holds no double quote, and line i + 5 otherwise, in extractLines,
\* in findLinesToFill and in replaceLines, which copies every line of the
\* block before the slot unchanged.
C21_SecondCommentIsTheSource ==
    /\ [][C21_Extract]_vars
    /\ [][C21_Fill]_vars
    /\ [][C21_Replace]_vars

\* a two-comment block with nvl clear before its slot: the three functions
\* took line k + 6 for the slot, text and command from line k + 4
C21_Witness ==
    /\ Done
    /\ \E k \in Indices(lines) :
          /\ TwoCommentBlockAt(lines, k)
          /\ k + 6 < Len(lines)
          /\ CommandWithoutQuotesAt(lines, k)
          /\ quotedText(At(lines, k + 3)) # quotedText(At(lines, k + 4))
          /\ \E n \in DOMAIN textSlots :
                /\ textSlots[n] = [src |-> k + 4, slot |-> k + 6]
                /\ linesToTranslate[n] = quotedText(At(lines, k + 4))
          /\ \E n \in DOMAIN fillSlots : fillSlots[n] = [src |-> k + 4, slot |-> k + 6]
          /\ \E n \in DOMAIN attempts : attempts[n].line = k + 6 /\ attempts[n].index # -1
          /\ At(outputLines, k + 5) = At(lines, k + 5)

\* the index a dialogue-block handler called at the header k hands back
IndexAfterDialogueBlock(ls, k) ==
    IF trimmedStartsWith(ls, k + 3, "#") /\ trimmedStartsWith(ls, k + 4, "#")
    THEN IF k + 5 < Len(ls) /\ CommandWithoutQuotesAt(ls, k) THEN k + 7 ELSE k + 6
    ELSE k + 5

\* the block at k has no comment line where one is expected
UnrecognizedBlockAt(ls, k) == ~trimmedStartsWith(ls, k + 3, "#")

ScanFunctions == {"extractLines", "findLinesToFill", "replaceLines"}

C22_Step ==
    \A f \in ScanFunctions :
        (AtLine(f) /\ isDialogueHeader(lines, i)) =>
            /\ i' = IndexAfterDialogueBlock(lines, i)
            /\ Len(linesToTranslate') <= Len(linesToTranslate) + 1
            /\ Len(linesToFill') <= Len(linesToFill) + 1
            /\ Len(attempts') <= Len(attempts) + 1
            /\ UnrecognizedBlockAt(lines, i) =>
                  /\ linesToTranslate' = linesToTranslate
                  /\ linesToFill' = linesToFill
                  /\ attempts' = attempts

\* C22: handling the dialogue block whose header is at index i leaves the
\* scan index at i + 7 (two comments, then a line without quote), at i + 6
\* (two comments, then a quoted line or no line) or at i + 5 (one comment,
\* or no comment), the same in extractLines, findLinesToFill and
\* replaceLines; the block yields at most one text, one descriptor and one
\* filled slot, and none when it has no comment.
C22_IndexAfterDialogueBlock == [][C22_Step]_vars

\* replaceLines is past a two-comment block with nvl clear before its slot,
\* at index 7, the scans having emitted one text and one descriptor for it
C22_Witness ==
    /\ pc = "replaceLines" /\ ~inStrings
    /\ TwoCommentBlockAt(lines, 0)
    /\ 6 < Len(lines)
    /\ CommandWithoutQuotesAt(lines, 0)
    /\ i = 7
    /\ Len(linesToTranslate) = 1
    /\ Len(linesToFill) = 1
    /\ Len(attempts) = 1

\* a step of one of the three functions that stays in the function: leaving
\* the loop of a strings block keeps the index, every iteration of the main
\* loop or of a strings-block loop increases it
C23_Step ==
    (pc \in ScanFunctions /\ pc' = pc) =>
        IF inStrings /\ ~inStrings' THEN i' = i ELSE i' > i

\* C23: extractLines, findLinesToFill and replaceLines terminate: every
\* iteration of the main loop and of a strings-block loop strictly increases
\* the line index, which is never decremented and never beyond the length of
\* the script by more than the seven lines of a block, and a loop whose index has reached the
\* length of the script is left.
C23_IndexStrictlyIncreases ==
    /\ [][C23_Step]_vars
    /\ [](pc \in ScanFunctions => (i >= 0 /\ i < Len(lines) + 7))
    /\ [][(pc \in ScanFunctions /\ i >= Len(lines) /\ pc' = pc) => (inStrings /\ ~inStrings')]_vars

\* the three functions have returned on a script that holds a strings block
\* with two pairs behind a dialogue block
C23_Witness ==
    /\ Done
    /\ \E h \in Indices(lines) : isDialogueHeader(lines, h)
    /\ \E h \in Indices(lines) :
          /\ isStringsHeader(lines, h)
          /\ h + 4 < Len(lines)
          /\ startsWith(trim(At(lines, h + 1)), "old \"")
          /\ startsWith(trim(At(lines, h + 3)), "old \"")
    /\ Len(fillSlots) >= 2
    /\ Len(outputLines) >= Len(lines) - 1

\* an empty slot line: the line ends, after a command or none, with "" and
\* holds no other double quote
isEmptySlotLine(line) ==
    LET t == trim(line)
    IN  /\ Len(t) >= 2
        /\ ~startsWith(t, "#")
        /\ indexOf(t, Quote) = Len(t) - 1
        /\ SubSeq(t, Len(t) - 1, Len(t)) = "\"\""

\* the command of a slot line or of a filled line: the text before its first
\* double quote
commandBeforeQuote(line) ==
    LET t == trim(line)
    IN  trim(SubSeq(t, 1, indexOf(t, Quote) - 1))

EmptySlots(ls) == { j \in Indices(ls) : isEmptySlotLine(At(ls, j)) }

\* the lines on which replaceLines looked for a filled line
AttemptedLines == { attempts[n].line : n \in DOMAIN attempts }

\* the empty slots of the script have pairwise distinct commands, and
\* filledLines holds exactly one filled line for the command of each
OneFilledLinePerSlotCommand ==
    /\ \A j, k \in EmptySlots(lines) :
          commandBeforeQuote(At(lines, j)) = commandBeforeQuote(At(lines, k)) => j = k
    /\ Len(filledLines) = Cardinality(EmptySlots(lines))
    /\ \A j \in EmptySlots(lines) :
          \E n \in DOMAIN filledLines :
              commandBeforeQuote(filledLines[n]) = commandBeforeQuote(At(lines, j))

\* C24: when the empty slots of the script have pairwise distinct commands
\* and filledLines holds exactly one filled line per slot command, in any
\* order, replaceLines writes into each slot the filled line of the slot's
\* own command, so that the text returned is the same for every permutation
\* of filledLines.  Stated for the scripts whose empty slots are exactly the
\* lines replaceLines tries to fill.
C24_MatchedByCommandNotPosition ==
    (Done /\ EmptySlots(lines) = AttemptedLines /\ OneFilledLinePerSlotCommand) =>
        \A n \in DOMAIN attempts :
            \E m \in DOMAIN filledLines :
                /\ commandBeforeQuote(filledLines[m]) = commandBeforeQuote(At(lines, attempts[n].line))
                /\ Pushed(attempts[n]) = "    " \o filledLines[m]

\* a well-formed dialogue block with an empty slot has its header at index k:
\* one comment line of command c and text x, then the empty slot of c
WellFormedBlockAt(ls, k, c, x) ==
    /\ k + 4 < Len(ls)
    /\ isDialogueHeader(ls, k)
    /\ trim(At(ls, k + 3)) = commentLine(c, x)
    /\ trim(At(ls, k + 4)) = slotLine(c)

\* C25: a well-formed dialogue block with an empty slot yields exactly one
\* extracted text and exactly one fill descriptor, and replaceLines looks
\* for a filled line for its slot, wherever the block is in the script: at
\* its start or behind strings blocks (no dialogue block before it, which
\* could be truncated and take its header for its own lines).
C25_DialogueBlockFoundAnywhere ==
    Done =>
        \A k \in Indices(lines), c \in Commands, x \in SourceTexts :
            (/\ WellFormedBlockAt(lines, k, c, x)
             /\ \A j \in 0..(k - 1) : ~isDialogueHeader(lines, j)) =>
                /\ Cardinality({ n \in DOMAIN textSlots : textSlots[n].slot = k + 4 }) = 1
                /\ Cardinality({ n \in DOMAIN fillSlots : fillSlots[n].slot = k + 4 }) = 1
                /\ \E n \in DOMAIN textSlots :
                      textSlots[n].slot = k + 4 /\ linesToTranslate[n] = x
                /\ \E n \in DOMAIN fillSlots :
                      fillSlots[n].slot = k + 4 /\ linesToFill[n] = slotLine(c)
                /\ \E n \in DOMAIN attempts : attempts[n].line = k + 4

\* the filled line an attempt found
Found(a) == a.before[a.index + 1][1]

\* C26: replaceLines never writes a filled line of command new into the slot
\* of a dialogue block.
C26_NewLineNeverInDialogueSlot ==
    Done =>
        \A n \in Substituted :
            ~attempts[n].strings => commandBeforeQuote(Found(attempts[n])) # "new"

\* C27: in one sequence of usage fetches the retry timer makes at most
\* MAX_RETRY_ATTEMPTS fetches, whatever the counts the service reports.
C27_AtMostMaxRetries == refetches <= MAX_RETRY_ATTEMPTS

\* the characters of the texts sent to the provider by the first n calls
RECURSIVE SubmittedChars(_)
SubmittedChars(n) == IF n = 0 THEN 0 ELSE SubmittedChars(n - 1) + submitted[n].chars

\* a folder translation run has fetched the usage
FolderRunning == folderPc \in {"loop", "done", "rejected"}

\* C28: during a folder translation run the running remaining quota is
\* never negative, and the texts sent to the provider never hold more
\* characters in all than the remaining quota computed from the usage
\* fetched at the start; a file sent whole is sent with all its characters,
\* a file sent in part with fewer, and what the files sent whole took is
\* what the remaining quota lost.
C28_QuotaNeverExceeded ==
    FolderRunning =>
        /\ remaining >= 0
        /\ startRemaining >= 0
        /\ SubmittedChars(Len(submitted)) <= startRemaining
        /\ \A n \in DOMAIN submitted :
              IF submitted[n].partial
              THEN submitted[n].chars < submitted[n].charCount
              ELSE submitted[n].chars = submitted[n].charCount
        /\ (~partialUsed /\ \A n \in DOMAIN submitted : ~submitted[n].partial) =>
              remaining + SubmittedChars(Len(submitted)) = startRemaining

\* a run ended with one file sent whole and a second one sent in part, the
\* two taking the whole quota
C28_Witness ==
    /\ folderPc = "done"
    /\ Len(submitted) = 2
    /\ ~submitted[1].partial
    /\ submitted[2].partial
    /\ SubmittedChars(2) = startRemaining

\* the metas the loop has gone through
GoneThrough == 1..(position - 1)

\* C29: a folder translation run goes through the files in ascending
\* character count and calls the provider in that order; at most one file is
\* translated in part, it is the last file written to the zip and its call
\* the last call of the run; in the component every file after it ends
\* skipped.
C29_OnePartialThenNothing ==
    FolderRunning =>
        /\ Len(candidates) = Len(files)
        /\ \A a, b \in DOMAIN candidates :
              a < b => candidates[a].charCount <= candidates[b].charCount
        /\ \A a, b \in DOMAIN submitted :
              a < b => submitted[a].charCount <= submitted[b].charCount
        /\ \A n \in DOMAIN submitted : submitted[n].partial => n = Len(submitted)
        /\ \A n \in DOMAIN zip : zip[n].partial => n = Len(zip)
        /\ Cardinality({ k \in DOMAIN status : status[k] = "partial" }) <= 1
        /\ \A q \in DOMAIN candidates :
              status[candidates[q].file] = "partial" =>
                  \A p \in (q + 1)..Len(candidates) :
                      /\ p \in GoneThrough => status[candidates[p].file] = "skipped"
                      /\ folderPc = "done" => p \in GoneThrough

\* the component ended a run on three files: the first translated, the
\* second translated in part, the third skipped
C29_Witness ==
    /\ folderPc = "done"
    /\ caller = "component"
    /\ Len(candidates) = 3
    /\ status[candidates[1].file] = "translated"
    /\ status[candidates[2].file] = "partial"
    /\ status[candidates[3].file] = "skipped"
    /\ Len(submitted) = 2
    /\ files[1] # candidates[1].textsToTranslate

\* C30: a file is recorded as translated (written whole to the zip, its
\* character count taken from the remaining quota, its status translated
\* in the component) only if the provider returned a translation for every
\* one of its texts.
C30_TranslatedOnlyWhenAnswered ==
    FolderRunning =>
        \A n \in DOMAIN zip :
            ~zip[n].partial => zip[n].translated = zip[n].texts

====
